---- MODULE Spec2Model ----
(***************************************************************************)
(* Vehicle-registration analytics: the Metric Calculator                   *)
(* (src/src/analytics_engine.py, VahanAnalyticsEngine) and the Store       *)
(* (src/src/database_manager.py, src/src/database.py).                     *)
(*                                                                         *)
(* Numbers.  Registration counts are integers.  Percentages that the code  *)
(* keeps as floats are kept here as exact rationals <<num, den>> (den > 0) *)
(* or, once the code has rounded them to 2 decimals, as an integer number  *)
(* of hundredths (5000 = 50.00).                                           *)
(***************************************************************************)
EXTENDS Integers, Sequences, FiniteSets, TLC

VARIABLES
    df,                     \* rows of the caller's DataFrame
    columns,                \* column names of the caller's DataFrame
    op,                     \* the last call made, with its arguments
    out,                    \* what that call returned
    vehicle_registrations,  \* table vehicle_registrations (rows in rowid order)
    growth_metrics,         \* table growth_metrics
    market_share,           \* table market_share
    txn                     \* the write transaction a recomputation has open

vars == <<df, columns, op, out, vehicle_registrations, growth_metrics, market_share, txn>>

calc_vars == <<df, columns, op, out>>
store_vars == <<vehicle_registrations, growth_metrics, market_share, txn>>

(***************************************************************************)
(* Bounds of the model.                                                    *)
(***************************************************************************)
MaxRows == 3        \* rows of a DataFrame handed to growth()
MaxCount == 2       \* largest registration count of one generated row

(***************************************************************************)
(* Values of the columns.                                                  *)
(***************************************************************************)
VehicleCategory == {"2W", "3W", "4W"}

Quarters == {"Q1", "Q2", "Q3", "Q4"}

\* df['quarter'].str[1].astype(int)
QuarterNum(q) ==
    CASE q = "Q1" -> 1 [] q = "Q2" -> 2 [] q = "Q3" -> 3 [] q = "Q4" -> 4

\* Order of the strings that occur as group values (Python / SQLite compare
\* strings by code point: digits before capital letters).
StrOrd(s) ==
    CASE s = "2W" -> 1 [] s = "3W" -> 2 [] s = "4W" -> 3
      [] s = "A" -> 4 [] s = "B" -> 5 [] s = "C" -> 6 [] s = "D" -> 7
      [] s = "E" -> 8 [] s = "F" -> 9 [] s = "G" -> 10 [] s = "H" -> 11
      [] s = "I" -> 12 [] s = "J" -> 13

\* The first month of a quarter and the ISO date 'YYYY-MM-01' as the number
\* YYYYMM (ISO dates compare as these numbers do).
QuarterMonth(q) == 3 * (QuarterNum(q) - 1) + 1

SchemaColumns ==
    {"date", "year", "quarter", "month", "vehicle_type", "manufacturer", "registrations"}

Row(y, q, t, m, n) ==
    [date |-> y * 100 + QuarterMonth(q), year |-> y, quarter |-> q,
     month |-> QuarterMonth(q), vehicle_type |-> t, manufacturer |-> m,
     registrations |-> n]

(***************************************************************************)
(* Arithmetic helpers.                                                     *)
(***************************************************************************)
Abs(x) == IF x < 0 THEN -x ELSE x

\* Floor of n / d for d > 0 (n of either sign).
FloorDiv(n, d) == IF n >= 0 THEN n \div d ELSE -((-n + d - 1) \div d)

\* n / d rounded to the nearest integer, ties to the even one (d > 0).
RoundDiv(n, d) ==
    LET q == FloorDiv(n, d)
        r == n - q * d
    IN  IF 2 * r < d THEN q
        ELSE IF 2 * r > d THEN q + 1
        ELSE IF q % 2 = 0 THEN q ELSE q + 1

RECURSIVE Gcd(_, _)
Gcd(a, b) == IF b = 0 THEN a ELSE Gcd(b, a % b)

\* A float that is not NaN, kept as the exact fraction n / d (d > 0) in
\* lowest terms; NaN is <<0, 0>>.
Rat(n, d) == LET g == Gcd(Abs(n), d) IN <<n \div g, d \div g>>

NaN == <<0, 0>>

IsNaN(x) == x[2] = 0

\* a < b on floats: False when one of them is NaN.
RatLess(a, b) == ~IsNaN(a) /\ ~IsNaN(b) /\ a[1] * b[2] < b[1] * a[2]

\* a <= b and a = b on floats (False when one of them is NaN).
RatLeq(a, b) == ~IsNaN(a) /\ ~IsNaN(b) /\ a[1] * b[2] <= b[1] * a[2]

RatEq(a, b) == ~IsNaN(a) /\ ~IsNaN(b) /\ a[1] * b[2] = b[1] * a[2]

RatAdd(a, b) ==
    IF IsNaN(a) \/ IsNaN(b) THEN NaN
    ELSE LET g == Gcd(a[2], b[2])
         IN  Rat(a[1] * (b[2] \div g) + b[1] * (a[2] \div g), (a[2] \div g) * b[2])

\* a * n / d for integers n and d > 0.
RatScale(a, n, d) == IF IsNaN(a) THEN NaN ELSE Rat(a[1] * n, a[2] * d)

\* Python's max(a, b) and min(a, b): the first argument unless the second
\* compares greater (smaller), so a NaN second argument is dropped.
PyMax(a, b) == IF RatLess(a, b) THEN b ELSE a

PyMin(a, b) == IF RatLess(b, a) THEN b ELSE a

RECURSIVE SumOver(_, _)
\* Sum of f[x] for x in S (f a function on S).
SumOver(f, S) ==
    IF S = {} THEN 0
    ELSE LET x == CHOOSE x \in S : TRUE IN f[x] + SumOver(f, S \ {x})

Range(s) == {s[i] : i \in DOMAIN s}

\* Series.sum() of the column 'registrations' over the rows that satisfy a
\* test, given as the set of their positions.
SumRegistrations(rows, idxs) == SumOver([i \in idxs |-> rows[i].registrations], idxs)

RECURSIVE SortInts(_)
\* The members of a set of integers in ascending order.
SortInts(S) ==
    IF S = {} THEN <<>>
    ELSE LET m == CHOOSE m \in S : \A x \in S : m <= x
         IN  <<m>> \o SortInts(S \ {m})

\* Lexicographic order of two tuples of strings of the same length.
GroupLess(a, b) ==
    \E i \in DOMAIN a :
        /\ StrOrd(a[i]) < StrOrd(b[i])
        /\ \A j \in 1..(i - 1) : a[j] = b[j]

RECURSIVE SortGroups(_)
\* The members of a set of group tuples in ascending order.
SortGroups(S) ==
    IF S = {} THEN <<>>
    ELSE LET m == CHOOSE m \in S : \A x \in S : x = m \/ GroupLess(m, x)
         IN  <<m>> \o SortGroups(S \ {m})

RECURSIVE Flatten(_)
\* Concatenation of a sequence of sequences.
Flatten(ss) == IF ss = <<>> THEN <<>> ELSE Head(ss) \o Flatten(Tail(ss))

(***************************************************************************)
(* calculate_growth_metrics                                                *)
(***************************************************************************)
GrowthPeriod == {"yoy", "qoq", "mom"}

\* The values of the group_by columns of a row.
GroupVals(r, group_by) == [i \in DOMAIN group_by |-> r[group_by[i]]]

\* df['period_sort'] = df['year'] * 10 + df['quarter'].str[1].astype(int)
PeriodSort(r) == r.year * 10 + QuarterNum(r.quarter)

\* The sort key of the period of a row.
PeriodKey(r, period_type) == IF period_type = "yoy" THEN r.year ELSE PeriodSort(r)

\* The period label of a metric: str(year), or f"{year}-{quarter}", kept as
\* the tuple of its parts.
PeriodName(k, period_type) ==
    IF period_type = "yoy" THEN <<k>>
    ELSE <<k \div 10, CHOOSE q \in Quarters : QuarterNum(q) = k % 10>>

\* df.groupby(group_by + [period])['registrations'].sum() at one key.
GroupSum(rows, period_type, group_by, g, k) ==
    SumRegistrations(rows,
        {i \in DOMAIN rows :
            GroupVals(rows[i], group_by) = g /\ PeriodKey(rows[i], period_type) = k})

\* A growth rate cut to 2 decimals instead of rounded.
GrowthRateTruncated(current, previous) == FloorDiv((current - previous) * 10000, previous)

\* growth_rate = (current - previous) / previous * 100, then round(.., 2):
\* the number of hundredths of a percent.
GrowthRate(current, previous) == RoundDiv((current - previous) * 10000, previous)

\* The metrics of one group with a rate of 0 where the previous sum is 0.
GroupMetricsZeroRate(rows, period_type, group_by, g) ==
    LET ks == SortInts({PeriodKey(rows[i], period_type) :
                          i \in {j \in DOMAIN rows : GroupVals(rows[j], group_by) = g}})
        metric(idx) ==
            LET current == GroupSum(rows, period_type, group_by, g, ks[idx])
                previous == GroupSum(rows, period_type, group_by, g, ks[idx - 1])
            IN  <<[entity |-> g,
                   period |-> PeriodName(ks[idx], period_type),
                   current_value |-> current,
                   previous_value |-> previous,
                   growth_rate |-> IF previous > 0 THEN GrowthRate(current, previous) ELSE 0,
                   growth_absolute |-> current - previous,
                   rank |-> 0]>>
    IN  Flatten([idx \in 1..(Len(ks) - 1) |-> metric(idx + 1)])

\* The metrics of one group, in the order of its periods (rank still 0).
GroupMetrics(rows, period_type, group_by, g) ==
    LET ks == SortInts({PeriodKey(rows[i], period_type) :
                          i \in {j \in DOMAIN rows : GroupVals(rows[j], group_by) = g}})
        metric(idx) ==
            LET current == GroupSum(rows, period_type, group_by, g, ks[idx])
                previous == GroupSum(rows, period_type, group_by, g, ks[idx - 1])
            IN  IF previous > 0
                THEN <<[entity |-> g,
                        period |-> PeriodName(ks[idx], period_type),
                        current_value |-> current,
                        previous_value |-> previous,
                        growth_rate |-> GrowthRate(current, previous),
                        growth_absolute |-> current - previous,
                        rank |-> 0]>>
                ELSE <<>>
    IN  Flatten([idx \in 1..(Len(ks) - 1) |-> metric(idx + 1)])

RECURSIVE InsertDescUnstable(_, _)
\* An insertion that puts a metric before the entries of equal growth_rate.
InsertDescUnstable(m, sorted) ==
    IF sorted = <<>> THEN <<m>>
    ELSE IF Head(sorted).growth_rate > m.growth_rate
         THEN <<Head(sorted)>> \o InsertDescUnstable(m, Tail(sorted))
         ELSE <<m>> \o sorted

RECURSIVE InsertDesc(_, _)
\* Insert a metric into a list sorted by growth_rate descending, after the
\* entries whose growth_rate is greater or equal (the sort is stable).
InsertDesc(m, sorted) ==
    IF sorted = <<>> THEN <<m>>
    ELSE IF Head(sorted).growth_rate >= m.growth_rate
         THEN <<Head(sorted)>> \o InsertDesc(m, Tail(sorted))
         ELSE <<m>> \o sorted

RECURSIVE SortByGrowthDesc(_)
\* metrics.sort(key=lambda x: x.growth_rate, reverse=True)
SortByGrowthDesc(ms) ==
    IF ms = <<>> THEN <<>>
    ELSE InsertDesc(ms[Len(ms)], SortByGrowthDesc(SubSeq(ms, 1, Len(ms) - 1)))

\* for i, metric in enumerate(metrics): metric.rank = i + 1
AssignRanks(ms) == [i \in DOMAIN ms |-> [ms[i] EXCEPT !.rank = i]]

\* The metrics before they are ranked, in the order they are appended.
UnrankedMetrics(rows, period_type, group_by) ==
    IF period_type \in {"yoy", "qoq"}
    THEN LET gs == SortGroups({GroupVals(rows[i], group_by) : i \in DOMAIN rows})
         IN  Flatten([n \in DOMAIN gs |-> GroupMetrics(rows, period_type, group_by, gs[n])])
    ELSE <<>>

\* Metrics with a placeholder entry for a table without rows.
GrowthMetricsWithPlaceholder(rows, period_type, group_by) ==
    IF rows = <<>>
    THEN <<[entity |-> <<>>, period |-> <<>>, current_value |-> 0, previous_value |-> 0,
            growth_rate |-> 0, growth_absolute |-> 0, rank |-> 1]>>
    ELSE AssignRanks(SortByGrowthDesc(UnrankedMetrics(rows, period_type, group_by)))

calculate_growth_metrics(rows, period_type, group_by) ==
    AssignRanks(SortByGrowthDesc(UnrankedMetrics(rows, period_type, group_by)))

(***************************************************************************)
(* calculate_market_concentration                                          *)
(***************************************************************************)
\* df['vehicle_type'].unique()
VehicleTypes(rows) == {rows[i].vehicle_type : i \in DOMAIN rows}

\* vehicle_data = df[df['vehicle_type'] == vehicle_type]
VehicleData(rows, t) == SelectSeq(rows, LAMBDA r : r.vehicle_type = t)

\* The index of manufacturer_totals: the manufacturers of the rows.
ManufacturersOf(rows) == {rows[i].manufacturer : i \in DOMAIN rows}

\* manufacturer_totals = vehicle_data.groupby('manufacturer')['registrations'].sum()
ManufacturerTotals(rows) ==
    [m \in ManufacturersOf(rows) |->
        SumRegistrations(rows, {i \in DOMAIN rows : rows[i].manufacturer = m})]

\* total_market = manufacturer_totals.sum()
TotalMarket(rows) == SumOver(ManufacturerTotals(rows), ManufacturersOf(rows))

\* A share kept as a fraction of 1 instead of a percentage.
ShareAsFraction(total, total_market) ==
    IF total_market = 0 THEN NaN ELSE Rat(total, total_market)

\* manufacturer_totals / total_market * 100: 0 / 0 is NaN.
Share(total, total_market) ==
    IF total_market = 0 THEN NaN ELSE Rat(100 * total, total_market)

MarketShares(rows) ==
    [m \in ManufacturersOf(rows) |-> Share(ManufacturerTotals(rows)[m], TotalMarket(rows))]

RECURSIVE RatSum(_, _)
\* Series.sum(): NaN entries are skipped, the sum of none is 0.
RatSum(f, S) ==
    IF S = {} THEN <<0, 1>>
    ELSE LET x == CHOOSE x \in S : TRUE
         IN  IF IsNaN(f[x]) THEN RatSum(f, S \ {x})
             ELSE RatAdd(f[x], RatSum(f, S \ {x}))

\* The sets of manufacturers that market_shares.head(k) can hold after
\* sort_values(ascending=False): k of them (all, if there are fewer), none
\* with a smaller share than one left out.  The order among equal shares
\* (the sort is a quicksort) and among NaN shares is not specified.
Heads(shares, k) ==
    LET ms == DOMAIN shares
        n == IF Cardinality(ms) < k THEN Cardinality(ms) ELSE k
    IN  {h \in SUBSET ms :
            /\ Cardinality(h) = n
            /\ \A x \in h, y \in ms \ h : ~RatLess(shares[x], shares[y])}

RECURSIVE TopSum(_, _, _)
\* The sum of the k largest of the shares of the manufacturers in S (NaN
\* counts as 0): the same whatever the order among equal shares.
TopSum(shares, S, k) ==
    IF S = {} \/ k = 0 THEN <<0, 1>>
    ELSE LET m == CHOOSE m \in S : \A x \in S : ~RatLess(shares[m], shares[x])
         IN  IF IsNaN(shares[m]) THEN <<0, 1>>
             ELSE RatAdd(shares[m], TopSum(shares, S \ {m}, k - 1))

\* market_shares.head(k).sum()
ConcentrationRatio(shares, k) == TopSum(shares, DOMAIN shares, k)

\* market_shares ** 2
Squares(shares) ==
    [m \in DOMAIN shares |->
        IF IsNaN(shares[m]) THEN NaN
        ELSE Rat(shares[m][1] * shares[m][1], shares[m][2] * shares[m][2])]

\* The sum of the squared shares taken as fractions of 1.
HhiOfFractions(shares) == RatScale(RatSum(Squares(shares), DOMAIN shares), 1, 10000)

\* hhi = (market_shares ** 2).sum()
Hhi(shares) == RatSum(Squares(shares), DOMAIN shares)

\* A classification whose first threshold is not strict.
ClassifyNotStrict(hhi) ==
    IF RatLeq(<<2500, 1>>, hhi) THEN "Highly Concentrated (Oligopoly)"
    ELSE IF RatLess(<<1500, 1>>, hhi) THEN "Moderately Concentrated"
    ELSE IF RatLess(<<1000, 1>>, hhi) THEN "Unconcentrated (Competitive)"
    ELSE "Highly Competitive"

_classify_market_structure(hhi) ==
    IF RatLess(<<2500, 1>>, hhi) THEN "Highly Concentrated (Oligopoly)"
    ELSE IF RatLess(<<1500, 1>>, hhi) THEN "Moderately Concentrated"
    ELSE IF RatLess(<<1000, 1>>, hhi) THEN "Unconcentrated (Competitive)"
    ELSE "Highly Competitive"

\* effective_competitors = 1 / (hhi / 10000) if hhi > 0 else 0
EffectiveCompetitors(hhi) ==
    IF RatLess(<<0, 1>>, hhi) THEN Rat(10000 * hhi[2], hhi[1]) ELSE <<0, 1>>

\* concentration_metrics[vehicle_type], from the rows of the vehicle type,
\* when the sort puts `leader` first and `top5` in the first five places.
ConcentrationEntry(vehicle_data, leader, top5) ==
    LET market_shares == MarketShares(vehicle_data)
        hhi == Hhi(market_shares)
    IN  [total_manufacturers |-> Cardinality(DOMAIN market_shares),
         market_leader |-> leader,
         leader_share |-> market_shares[leader],
         cr4_ratio |-> ConcentrationRatio(market_shares, 4),
         cr8_ratio |-> ConcentrationRatio(market_shares, 8),
         hhi_index |-> hhi,
         effective_competitors |-> EffectiveCompetitors(hhi),
         market_structure |-> _classify_market_structure(hhi),
         top_5_shares |-> [m \in top5 |-> market_shares[m]]]

\* First places with any manufacturer of head(5) at index 0.
AnyOfTopFiveFirst(vehicle_data) ==
    LET market_shares == MarketShares(vehicle_data)
    IN  UNION {{[leader |-> l, top5 |-> h] : l \in h} : h \in Heads(market_shares, 5)}

\* The first places the sort can produce for the rows of one vehicle type:
\* the manufacturer at index 0 and the manufacturers of head(5).
FirstPlaces(vehicle_data) ==
    LET market_shares == MarketShares(vehicle_data)
        leaders == UNION Heads(market_shares, 1)
    IN  UNION {{[leader |-> l, top5 |-> h] : l \in h \cap leaders} :
               h \in Heads(market_shares, 5)}

RECURSIVE SortOutcomesOf(_, _)
\* First places for every vehicle type of `types`, each type's sort having
\* an outcome of its own.
SortOutcomesOf(rows, types) ==
    IF types = {} THEN {<<>>}
    ELSE LET t == CHOOSE t \in types : TRUE
         IN  {[x \in types |-> IF x = t THEN p ELSE f[x]] :
                 p \in FirstPlaces(VehicleData(rows, t)),
                 f \in SortOutcomesOf(rows, types \ {t})}

\* The outcomes of the sorts of one call: first places for every vehicle type.
SortOutcomes(rows) == SortOutcomesOf(rows, VehicleTypes(rows))

\* calculate_market_concentration(df), given what its sorts put first.
calculate_market_concentration(rows, first) ==
    [t \in VehicleTypes(rows) |->
        ConcentrationEntry(VehicleData(rows, t), first[t].leader, first[t].top5)]

(***************************************************************************)
(* generate_investment_scorecard                                           *)
(***************************************************************************)
\* np.mean([m.growth_rate for m in yoy_metrics ...]) in percent: NaN for an
\* empty list (numpy warns and returns nan).
MeanGrowthRate(metrics) ==
    IF metrics = <<>> THEN NaN
    ELSE Rat(SumOver([i \in DOMAIN metrics |-> metrics[i].growth_rate], DOMAIN metrics),
             100 * Len(metrics))

\* A clamp that lets NaN through, as numpy's minimum and maximum do.
GrowthScoreNaN(avg_growth) ==
    IF IsNaN(avg_growth) THEN NaN
    ELSE PyMin(<<100, 1>>, PyMax(<<0, 1>>, RatScale(RatAdd(avg_growth, <<20, 1>>), 2, 1)))

\* growth_score = min(100, max(0, (avg_growth + 20) * 2))
GrowthScore(avg_growth) ==
    PyMin(<<100, 1>>, PyMax(<<0, 1>>, RatScale(RatAdd(avg_growth, <<20, 1>>), 2, 1)))

\* size_percentile = 33 if vehicle_type == '3W' else 67 if vehicle_type == '2W' else 100
SizePercentile(t) == IF t = "3W" THEN 33 ELSE IF t = "2W" THEN 67 ELSE 100

\* competition_score = max(0, 100 - hhi_index / 50)
CompetitionScore(hhi) == PyMax(<<0, 1>>, RatAdd(<<100, 1>>, RatScale(hhi, -1, 50)))

\* innovation_score = 50, or min(100, fuel_diversity * 20) with a fuel_type column
InnovationScore(vehicle_data, cols) ==
    IF "fuel_type" \in cols
    THEN LET fuel_diversity ==
                Cardinality({vehicle_data[i].fuel_type : i \in DOMAIN vehicle_data})
         IN  IF fuel_diversity * 20 < 100 THEN fuel_diversity * 20 ELSE 100
    ELSE 50

\* overall_score = growth * 0.4 + size * 0.3 + competition * 0.2 + innovation * 0.1
OverallScore(growth_score, size_percentile, competition_score, innovation_score) ==
    RatAdd(RatAdd(RatScale(growth_score, 4, 10), <<3 * size_percentile, 10>>),
           RatAdd(RatScale(competition_score, 2, 10), <<innovation_score, 10>>))

\* round(x, ndigits) of a float, scale = 10^ndigits; NaN stays NaN.
Round(x, scale) ==
    IF IsNaN(x) THEN NaN
    ELSE LET g == Gcd(scale, x[2])
         IN  Rat(RoundDiv(x[1] * (scale \div g), x[2] \div g), scale)

\* The recommendation: the if / elif chain on overall_score.
Recommendation(overall_score) ==
    IF RatLeq(<<75, 1>>, overall_score)
    THEN "Strong Buy - High growth potential with favorable market dynamics"
    ELSE IF RatLeq(<<60, 1>>, overall_score) THEN "Buy - Positive outlook with moderate risk"
    ELSE IF RatLeq(<<40, 1>>, overall_score) THEN "Hold - Mixed signals, monitor closely"
    ELSE "Avoid - Challenging market conditions"

\* scorecard[vehicle_type], from the rows of the vehicle type and the entry
\* calculate_market_concentration(vehicle_data) returned for it.
ScorecardEntry(vehicle_data, cols, t, concentration) ==
    LET yoy_metrics == calculate_growth_metrics(vehicle_data, "yoy", <<"manufacturer">>)
        avg_growth == MeanGrowthRate(yoy_metrics)
        growth_score == GrowthScore(avg_growth)
        size_percentile == SizePercentile(t)
        competition_score == CompetitionScore(concentration.hhi_index)
        innovation_score == InnovationScore(vehicle_data, cols)
        overall_score ==
            OverallScore(growth_score, size_percentile, competition_score, innovation_score)
    IN  [overall_score |-> Round(overall_score, 10),
         growth_momentum |-> Round(growth_score, 10),
         market_size |-> size_percentile,
         competition_intensity |-> Round(competition_score, 10),
         innovation_potential |-> innovation_score,
         recommendation |-> Recommendation(overall_score),
         key_metrics |->
            [avg_yoy_growth |-> Round(avg_growth, 100),
             total_market_size |-> SumRegistrations(vehicle_data, DOMAIN vehicle_data),
             number_of_players |-> concentration.total_manufacturers,
             market_leader |-> concentration.market_leader]]

\* generate_investment_scorecard(df), given what the sorts of its calls of
\* calculate_market_concentration(vehicle_data) put first.
generate_investment_scorecard(rows, cols, first) ==
    [t \in VehicleTypes(rows) |->
        ScorecardEntry(VehicleData(rows, t), cols, t,
            calculate_market_concentration(VehicleData(rows, t), first)[t])]

(***************************************************************************)
(* forecast_registrations(df, periods): a least-squares line through the   *)
(* quarterly sums of each vehicle type.                                    *)
(***************************************************************************)
\* The index of quarterly_data: groupby(['year', 'quarter']).
QuarterlyKeys(vehicle_data) ==
    {<<vehicle_data[i].year, vehicle_data[i].quarter>> : i \in DOMAIN vehicle_data}

\* quarterly_data['registrations'] at key k
QuarterlySum(vehicle_data, k) ==
    SumRegistrations(vehicle_data,
        {i \in DOMAIN vehicle_data :
            vehicle_data[i].year = k[1] /\ vehicle_data[i].quarter = k[2]})

\* quarterly_data['period'] at key k:
\* (year - year.min()) * 4 + quarter.str[1].astype(int) - 1
QuarterIndex(keys, k) ==
    LET min_year == CHOOSE y \in {k2[1] : k2 \in keys} : \A k2 \in keys : y <= k2[1]
    IN  (k[1] - min_year) * 4 + QuarterNum(k[2]) - 1

\* A forecast from three points on.
EnoughQuartersThree(n) == n >= 3

\* len(quarterly_data) >= 4
EnoughQuarters(n) == n >= 4

\* int(v) of a float: the fraction cut off towards zero.
PyInt(v) == IF v[1] >= 0 THEN v[1] \div v[2] ELSE -((-v[1]) \div v[2])

\* A forecast value that is rounded and not floored at 0.
ForecastValueRounded(v) == RoundDiv(v[1], v[2])

\* max(0, int(v))
ForecastValue(v) == IF PyInt(v) > 0 THEN PyInt(v) ELSE 0

\* np.polyfit(x, y, 1) over the keys: <<trend_slope, intercept>> of the line
\* that minimises the squared residuals (x has two different values at least).
Polyfit(x, y, keys) ==
    LET n == Cardinality(keys)
        sx == SumOver(x, keys)
        sy == SumOver(y, keys)
        sxx == SumOver([k \in keys |-> x[k] * x[k]], keys)
        sxy == SumOver([k \in keys |-> x[k] * y[k]], keys)
        d == n * sxx - sx * sx
        a == n * sxy - sx * sy
    IN  <<Rat(a, d), Rat(d * sy - a * sx, n * d)>>

\* trend_slope * p + intercept
TrendLine(coeffs, p) == RatAdd(RatScale(coeffs[1], p, 1), coeffs[2])

\* np.std(residuals) squared: the mean of the squared distances of the
\* residuals from their mean.
StdSquared(residuals, keys) ==
    LET n == Cardinality(keys)
        mean == RatScale(RatSum(residuals, keys), 1, n)
        dev(k) == RatAdd(residuals[k], RatScale(mean, -1, 1))
    IN  RatScale(RatSum([k \in keys |-> Rat(dev(k)[1] * dev(k)[1], dev(k)[2] * dev(k)[2])],
                        keys), 1, n)

\* forecasts[vehicle_type]; confidence_interval = std_error * 1.96 is kept as
\* the factor and the square of std_error.
ForecastEntry(vehicle_data, periods) ==
    LET keys == QuarterlyKeys(vehicle_data)
        x == [k \in keys |-> QuarterIndex(keys, k)]
        y == [k \in keys |-> QuarterlySum(vehicle_data, k)]
        coeffs == Polyfit(x, y, keys)
        last == CHOOSE k \in keys : \A k2 \in keys : x[k2] <= x[k]
        residuals ==
            [k \in keys |-> RatAdd(<<y[k], 1>>, RatScale(TrendLine(coeffs, x[k]), -1, 1))]
    IN  [forecast_values |->
            [j \in 1..periods |-> ForecastValue(TrendLine(coeffs, x[last] + j))],
         trend_slope |-> coeffs[1],
         confidence_interval |->
            [std_error_squared |-> StdSquared(residuals, keys), times |-> Rat(196, 100)],
         last_actual |-> y[last],
         growth_trend |-> IF RatLess(<<0, 1>>, coeffs[1]) THEN "Positive" ELSE "Negative"]

forecast_registrations(rows, periods) ==
    LET enough == {t \in VehicleTypes(rows) :
                      EnoughQuarters(Cardinality(QuarterlyKeys(VehicleData(rows, t))))}
    IN  [t \in enough |-> ForecastEntry(VehicleData(rows, t), periods)]

(***************************************************************************)
(* identify_investment_themes (src/src/investor_insights.py).  Of a theme  *)
(* the name and the supporting data are kept; its other texts are fixed.   *)
(***************************************************************************)
\* df['vehicle_type'].unique(): the vehicle types in the order they appear,
\* the order of the keys of concentration_metrics.
VehicleTypesInOrder(rows) ==
    LET firsts == SortInts({i \in DOMAIN rows : \A j \in 1..(i - 1) :
                                rows[j].vehicle_type # rows[i].vehicle_type})
    IN  [n \in DOMAIN firsts |-> rows[firsts[n]].vehicle_type]

\* Theme 1: with a fuel_type column, rows of fuel 'Electric' and more than
\* one year of them.  ev_cagr = ((last / first) ** (1 / years) - 1) * 100 is
\* kept as the last and first yearly sum and the number of years.
ElectricVehicleTheme(rows, cols) ==
    IF "fuel_type" \notin cols THEN <<>>
    ELSE LET ev_data == SelectSeq(rows, LAMBDA r : r.fuel_type = "Electric")
             years == SortInts({ev_data[i].year : i \in DOMAIN ev_data})
             ev_growth == [n \in DOMAIN years |->
                             SumRegistrations(ev_data,
                                {i \in DOMAIN ev_data : ev_data[i].year = years[n]})]
         IN  IF Len(years) > 1
             THEN <<[theme_name |-> <<"Electric Vehicle Adoption">>,
                     supporting_data |->
                        [ev_cagr |-> [last |-> ev_growth[Len(years)],
                                      first |-> ev_growth[1],
                                      years |-> Len(years) - 1],
                         current_ev_registrations |-> ev_growth[Len(years)],
                         ev_market_share |->
                            Round(Share(SumRegistrations(ev_data, DOMAIN ev_data),
                                        SumRegistrations(rows, DOMAIN rows)), 10)]]>>
             ELSE <<>>

\* A consolidation theme for the first vehicle type only.
ConsolidationThemeOfFirstType(rows, first) ==
    LET concentration_metrics == calculate_market_concentration(rows, first)
        types == VehicleTypesInOrder(rows)
    IN  IF types # <<>> /\ RatLess(<<1500, 1>>, concentration_metrics[types[1]].hhi_index)
        THEN <<[theme_name |-> <<types[1], "Market Consolidation">>,
                supporting_data |->
                    [market_leader |-> concentration_metrics[types[1]].market_leader,
                     leader_share |-> Round(concentration_metrics[types[1]].leader_share, 10),
                     top_4_share |-> Round(concentration_metrics[types[1]].cr4_ratio, 10),
                     hhi_index |-> concentration_metrics[types[1]].hhi_index]]>>
        ELSE <<>>

\* Theme 2: one theme per vehicle type whose hhi_index is above 1500.
ConsolidationThemes(rows, first) ==
    LET concentration_metrics == calculate_market_concentration(rows, first)
        types == VehicleTypesInOrder(rows)
        theme(t) ==
            LET metrics == concentration_metrics[t]
            IN  IF RatLess(<<1500, 1>>, metrics.hhi_index)
                THEN <<[theme_name |-> <<t, "Market Consolidation">>,
                        supporting_data |->
                            [market_leader |-> metrics.market_leader,
                             leader_share |-> Round(metrics.leader_share, 10),
                             top_4_share |-> Round(metrics.cr4_ratio, 10),
                             hhi_index |-> metrics.hhi_index]]>>
                ELSE <<>>
    IN  Flatten([n \in DOMAIN types |-> theme(types[n])])

\* Theme 3: the first of the year-over-year metrics per vehicle_type with
\* the largest growth_rate, when it is above 15.
HighGrowthTheme(rows) ==
    LET growth_metrics_list == calculate_growth_metrics(rows, "yoy", <<"vehicle_type">>)
        high_growth_segments ==
            SelectSeq(growth_metrics_list, LAMBDA m : m.growth_rate > 1500)
    IN  IF high_growth_segments # <<>>
        THEN LET fastest_growing ==
                    high_growth_segments[
                        CHOOSE i \in DOMAIN high_growth_segments :
                            /\ \A j \in DOMAIN high_growth_segments :
                                 high_growth_segments[j].growth_rate
                                    <= high_growth_segments[i].growth_rate
                            /\ \A j \in 1..(i - 1) :
                                 high_growth_segments[j].growth_rate
                                    < high_growth_segments[i].growth_rate]
             IN  <<[theme_name |-> <<"High-Growth Segment Opportunity">>,
                    supporting_data |->
                        [entity |-> fastest_growing.entity,
                         growth_rate |-> Round(Rat(fastest_growing.growth_rate, 100), 10),
                         current_registrations |-> fastest_growing.current_value,
                         growth_absolute |-> fastest_growing.growth_absolute]]>>
        ELSE <<>>

identify_investment_themes(rows, cols, first) ==
    ElectricVehicleTheme(rows, cols) \o ConsolidationThemes(rows, first) \o HighGrowthTheme(rows)

(***************************************************************************)
(* generate_executive_summary (src/src/investor_insights.py).  A text is   *)
(* kept as the tuple of its parts: <<"N/A">>, <<n, "{:,}">> for a number   *)
(* with thousands separators, <<x, "{:.1f}%">> for a percentage.           *)
(***************************************************************************)
\* f"{n:,}"; the literal "0" of the placeholder is the text of 0.
FormatThousands(n) == <<n, "{:,}">>

\* f"{x:.1f}%"
FormatPercent(x) == <<Round(x, 10), "{:.1f}%">>

\* The fields of the scorecard and of the concentration metrics that the
\* summary reads do not depend on the order among equal shares.
AnyFirst(rows) == CHOOSE first \in SortOutcomes(rows) : TRUE

\* _classify_market_size
_classify_market_size(total_registrations) ==
    IF total_registrations > 10000000 THEN <<"Large Market (>10M registrations)">>
    ELSE IF total_registrations > 1000000 THEN <<"Medium Market (1-10M registrations)">>
    ELSE <<"Small Market (<1M registrations)">>

\* _get_concentration_summary: 'Highly Concentrated' and 'Competitive' are
\* looked for in the labels of _classify_market_structure.
_get_concentration_summary(concentration_metrics) ==
    LET structures == {concentration_metrics[t].market_structure :
                          t \in DOMAIN concentration_metrics}
    IN  IF structures \subseteq {"Highly Concentrated (Oligopoly)"}
        THEN <<"All segments highly concentrated">>
        ELSE IF structures \subseteq {"Unconcentrated (Competitive)", "Highly Competitive"}
             THEN <<"All segments competitive">>
             ELSE <<"Mixed concentration levels across segments">>

\* _generate_investment_outlook: the mean of the overall scores.
_generate_investment_outlook(rows, cols) ==
    LET scorecard == generate_investment_scorecard(rows, cols, AnyFirst(rows))
        avg_score ==
            IF DOMAIN scorecard = {} THEN NaN
            ELSE RatScale(RatSum([t \in DOMAIN scorecard |-> scorecard[t].overall_score],
                                 DOMAIN scorecard),
                          1, Cardinality(DOMAIN scorecard))
    IN  IF RatLeq(<<75, 1>>, avg_score)
        THEN <<"Positive - Strong growth fundamentals with favorable market dynamics">>
        ELSE IF RatLeq(<<60, 1>>, avg_score)
             THEN <<"Cautiously Optimistic - Good opportunities with selective approach needed">>
             ELSE IF RatLeq(<<40, 1>>, avg_score)
                  THEN <<"Neutral - Mixed signals requiring careful analysis">>
                  ELSE <<"Cautious - Challenging market conditions with limited opportunities">>

StandardRisks ==
    <<<<"Economic downturn impact on vehicle purchases">>,
      <<"Regulatory changes affecting vehicle standards">>,
      <<"Technology disruption from new mobility solutions">>>>

\* A risk list without the standard market risks.
RisksWithoutStandard(rows) == <<>>

\* _assess_market_risks
_assess_market_risks(rows) ==
    LET concentration_metrics == calculate_market_concentration(rows, AnyFirst(rows))
        types == VehicleTypesInOrder(rows)
        high_concentration_segments ==
            SelectSeq(types, LAMBDA vt :
                RatLess(<<2500, 1>>, concentration_metrics[vt].hhi_index))
        yoy_metrics == calculate_growth_metrics(rows, "yoy", <<"vehicle_type">>)
        declining == SelectSeq(yoy_metrics, LAMBDA m : m.growth_rate < -500)
        declining_segments == [i \in DOMAIN declining |-> declining[i].entity]
    IN  (IF high_concentration_segments # <<>>
         THEN <<<<"High concentration risk in", high_concentration_segments, "segments">>>>
         ELSE <<>>)
        \o (IF declining_segments # <<>>
            THEN <<<<"Declining demand in", declining_segments>>>>
            ELSE <<>>)
        \o StandardRisks

\* vehicle_breakdown.index[0] after sort_values(ascending=False): a vehicle
\* type with the largest sum (the order among equal sums is not specified).
DominantCategories(rows) ==
    LET sum(t) == SumRegistrations(rows, {i \in DOMAIN rows : rows[i].vehicle_type = t})
    IN  {t \in VehicleTypes(rows) : \A t2 \in VehicleTypes(rows) : sum(t2) <= sum(t)}

\* The calculator operations a summary calls.
SummaryCalls(rows) ==
    IF rows = <<>> THEN {}
    ELSE {"market_concentration", "investment_scorecard", "growth"}

\* A summary that goes on to the calculations when the table has no rows.
IsEmptyNever(rows) == FALSE

\* df.empty
IsEmpty(rows) == rows = <<>>

generate_executive_summary(rows, cols, dominant_category) ==
    IF IsEmpty(rows)
    THEN [market_overview |->
            [total_registrations |-> FormatThousands(0),
             yoy_growth |-> <<"N/A">>,
             total_manufacturers |-> 0,
             dominant_category |-> <<"No data available">>,
             market_size_category |-> <<"No data available">>],
          key_highlights |-> <<<<"No data available for the selected filters">>>>,
          investment_outlook |-> <<"No data available">>,
          risk_assessment |-> <<<<"No data available">>>>]
    ELSE LET total_registrations == SumRegistrations(rows, DOMAIN rows)
             total_manufacturers == Cardinality(ManufacturersOf(rows))
             years == {rows[i].year : i \in DOMAIN rows}
             latest_year == IF years = {} THEN 0
                            ELSE CHOOSE y \in years : \A y2 \in years : y2 <= y
             current_year_data ==
                SumRegistrations(rows, {i \in DOMAIN rows : rows[i].year = latest_year})
             previous_year_data ==
                SumRegistrations(rows, {i \in DOMAIN rows : rows[i].year = latest_year - 1})
             yoy_growth ==
                IF previous_year_data > 0
                THEN Rat((current_year_data - previous_year_data) * 100, previous_year_data)
                ELSE <<0, 1>>
             dominant_sum ==
                SumRegistrations(rows,
                    {i \in DOMAIN rows : rows[i].vehicle_type = dominant_category})
             concentration_metrics == calculate_market_concentration(rows, AnyFirst(rows))
         IN  [market_overview |->
                [total_registrations |-> FormatThousands(total_registrations),
                 yoy_growth |-> FormatPercent(yoy_growth),
                 total_manufacturers |-> total_manufacturers,
                 dominant_category |-> <<dominant_category>>,
                 market_size_category |-> _classify_market_size(total_registrations)],
              key_highlights |->
                <<<<"Market grew", FormatPercent(yoy_growth), "YoY with",
                    FormatThousands(total_registrations), "total registrations">>,
                  <<dominant_category, "segment dominates with",
                    FormatThousands(dominant_sum), "registrations">>,
                  <<"Market features", total_manufacturers,
                    "active manufacturers across all segments">>,
                  <<"Concentration varies by segment:",
                    _get_concentration_summary(concentration_metrics)>>>>,
              investment_outlook |-> _generate_investment_outlook(rows, cols),
              risk_assessment |-> _assess_market_risks(rows)]

(***************************************************************************)
(* identify_market_leaders (src/src/analytics_engine.py) and               *)
(* generate_competitive_analysis (src/src/investor_insights.py).  A result *)
(* is a record whose field `raised` names the exception that ended the     *)
(* call, "none" when it returned.                                          *)
(***************************************************************************)
\* What sort_values(ascending=False) can put first for the rows of one
\* vehicle type: the manufacturer at index 0, those of head(3) and those of
\* index[:10].
LeaderPlaces(vehicle_data) ==
    LET market_shares == MarketShares(vehicle_data)
    IN  UNION {{[leader |-> l, top3 |-> h3, top10 |-> h10] :
                    l \in h3 \cap UNION Heads(market_shares, 1),
                    h10 \in {h \in Heads(market_shares, 10) : h3 \subseteq h}} :
               h3 \in Heads(market_shares, 3)}

\* (... / total * 100).round(2)
RoundedShares(vehicle_data) ==
    [m \in ManufacturersOf(vehicle_data) |-> Round(MarketShares(vehicle_data)[m], 100)]

\* 'High' if len(...) > 15 else 'Medium' if len(...) > 8 else 'Low'
FragmentationLevel(n) == IF n > 15 THEN "High" ELSE IF n > 8 THEN "Medium" ELSE "Low"

\* index[0] and iloc[0] of a Series without entries raise an IndexError.
identify_market_leaders(rows, vehicle_type, place) ==
    LET vehicle_data == VehicleData(rows, vehicle_type)
        market_share_pct == RoundedShares(vehicle_data)
        hhi == Hhi(market_share_pct)
        market_structure ==
            IF RatLess(<<2500, 1>>, hhi) THEN "Highly Concentrated"
            ELSE IF RatLess(<<1500, 1>>, hhi) THEN "Moderately Concentrated"
            ELSE "Competitive"
    IN  IF DOMAIN market_share_pct = {}
        THEN [raised |-> "IndexError"]
        ELSE [raised |-> "none",
              vehicle_type |-> vehicle_type,
              market_leader |-> place.leader,
              leader_share |-> market_share_pct[place.leader],
              top_3_players |-> [m \in place.top3 |-> market_share_pct[m]],
              top_3_combined_share |-> RatSum(market_share_pct, place.top3),
              hhi_index |-> Round(hhi, 100),
              market_structure |-> market_structure,
              total_players |-> Cardinality(DOMAIN market_share_pct),
              fragmentation_level |->
                  FragmentationLevel(Cardinality(DOMAIN market_share_pct))]

\* next((m.growth_rate for m in yoy_metrics if manufacturer in m.entity), 0),
\* in hundredths of a percent.  (No manufacturer name of the model is part
\* of another.)
ManufacturerGrowth(yoy_metrics, manufacturer) ==
    LET found == {i \in DOMAIN yoy_metrics : yoy_metrics[i].entity = <<manufacturer>>}
    IN  IF found = {} THEN 0
        ELSE yoy_metrics[CHOOSE i \in found : \A j \in found : i <= j].growth_rate

\* The position of a manufacturer in the competitive matrix.
CompetitivePosition(share, growth) ==
    IF RatLess(<<15, 1>>, share) /\ growth > 1000
    THEN "Star (High Share, High Growth)"
    ELSE IF RatLess(<<15, 1>>, share) /\ growth <= 1000
         THEN "Cash Cow (High Share, Low Growth)"
         ELSE IF RatLeq(share, <<15, 1>>) /\ growth > 1000
              THEN "Question Mark (Low Share, High Growth)"
              ELSE "Dog (Low Share, Low Growth)"

generate_competitive_analysis(rows, vehicle_type, place) ==
    LET vehicle_data == VehicleData(rows, vehicle_type)
        manufacturer_totals == ManufacturerTotals(vehicle_data)
        total_market == TotalMarket(vehicle_data)
        market_shares == RoundedShares(vehicle_data)
        yoy_metrics == calculate_growth_metrics(vehicle_data, "yoy", <<"manufacturer">>)
        competitive_matrix ==
            [m \in place.top10 |->
                [market_share |-> market_shares[m],
                 yoy_growth |-> ManufacturerGrowth(yoy_metrics, m),
                 position |-> CompetitivePosition(market_shares[m],
                                                  ManufacturerGrowth(yoy_metrics, m)),
                 registrations |-> manufacturer_totals[m]]]
    IN  IF DOMAIN market_shares = {}
        THEN [raised |-> "IndexError"]
        ELSE [raised |-> "none",
              segment |-> vehicle_type,
              market_size |-> total_market,
              market_leader |-> place.leader,
              leader_share |-> market_shares[place.leader],
              competitive_matrix |-> competitive_matrix,
              market_dynamics |->
                [fragmentation_level |-> FragmentationLevel(Cardinality(DOMAIN market_shares)),
                 growth_leaders |->
                    {m \in place.top10 : competitive_matrix[m].yoy_growth > 1500},
                 market_share_leaders |-> [m \in place.top3 |-> market_shares[m]],
                 emerging_players |->
                    {m \in place.top10 : competitive_matrix[m].position
                                            = "Question Mark (Low Share, High Growth)"}]]

(***************************************************************************)
(* The Store: the tables of data/vahan_data.db.  VahanDatabaseManager and  *)
(* VahanDatabase open the same file.                                       *)
(***************************************************************************)
\* A nullable SQL value: NULL, or <<v>> for the value v.
NULL == <<>>

NotNull(v) == <<v>>

\* required_columns of bulk_insert_registrations
required_columns ==
    {"date", "year", "quarter", "month", "vehicle_type", "manufacturer", "registrations"}

\* df_final = df_enhanced[required_columns]: one row cut to the stored columns.
StoredRow(r) == [c \in required_columns |-> r[c]]

\* pd.to_datetime(df_enhanced['date']).dt.month of a date YYYYMM
MonthOf(date) == date % 100

\* df_enhanced: the DataFrame with its month column, taken from the date
\* when the caller's DataFrame has no such column.
df_enhanced(rows, cols) ==
    IF "month" \in cols THEN rows
    ELSE [i \in DOMAIN rows |-> [rows[i] EXCEPT !.month = MonthOf(rows[i].date)]]

\* A selection of columns that never fails.
SelectNeverFails(cols) == FALSE

\* df_enhanced[required_columns] raises a KeyError when a column is missing.
SelectFails(cols) == ~(required_columns \subseteq (cols \cup {"month"}))

\* An insert that keeps the stored rows whatever replace says.
TableAfterAppend(table, rows, replace) == table \o [i \in DOMAIN rows |-> StoredRow(rows[i])]

\* The rows bulk_insert_registrations leaves in vehicle_registrations: with
\* replace, DELETE FROM vehicle_registrations comes first.
TableAfterBulkInsert(table, rows, replace) ==
    (IF replace THEN <<>> ELSE table) \o [i \in DOMAIN rows |-> StoredRow(rows[i])]

\* A DELETE that is committed by itself before the insert fails.
TableAfterCommittedDelete(table, replace) == IF replace THEN <<>> ELSE table

\* The rows a failed insert leaves in vehicle_registrations: the DELETE
\* opened a transaction that is never committed (to_sql rolls it back when
\* the INSERT fails; after a KeyError the connection is dropped).
TableAfterFailedInsert(table, replace) == table

\* The rows insert_data leaves in vehicle_registrations: DELETE, then to_sql
\* of the DataFrame as it is.
TableAfterInsertData(table, rows) == rows

\* SQLite ROUND(n * 1.0 / d) for d > 0: ties away from zero.
SqlRound(n, d) ==
    LET q == (2 * Abs(n) + d) \div (2 * d)
    IN  IF n < 0 THEN -q ELSE q

\* CASE WHEN previous > 0 THEN ROUND((current - previous) * 100.0 / previous, 2)
\* ELSE NULL END, in hundredths of a percent.
SqlGrowthRate(current, previous) ==
    IF previous = NULL THEN NULL
    ELSE IF previous[1] > 0
         THEN NotNull(SqlRound((current - previous[1]) * 10000, previous[1]))
         ELSE NULL

\* (current - COALESCE(previous, 0))
SqlGrowthAbsolute(current, previous) ==
    current - (IF previous = NULL THEN 0 ELSE previous[1])

\* SUM(registrations) ... GROUP BY cols: the sum at one key of the grouping.
SqlGroupSum(table, cols, key) ==
    SumRegistrations(table, {i \in DOMAIN table : GroupVals(table[i], cols) = key})

\* The keys of GROUP BY cols.
SqlGroups(table, cols) == {GroupVals(table[i], cols) : i \in DOMAIN table}

\* One row of growth_metrics.
MetricRow(entity_type, entity_name, metric_type, period, current, previous) ==
    [entity_type |-> entity_type, entity_name |-> entity_name,
     metric_type |-> metric_type, period |-> period,
     current_value |-> current, previous_value |-> previous,
     growth_rate |-> SqlGrowthRate(current, previous),
     growth_absolute |-> SqlGrowthAbsolute(current, previous)]

\* A key LEFT JOIN the grouped rows `matches` that satisfy its ON clause: the
\* previous_value of every joined row, NULL when no row matches.
LeftJoinPrevious(table, cols, matches) ==
    IF matches = {} THEN {NULL}
    ELSE {NotNull(SqlGroupSum(table, cols, k2)) : k2 \in matches}

\* yoy_manufacturer_query: the yearly sums per (manufacturer, vehicle_type)
\* joined with the sums of the year before; WHERE previous_value IS NOT NULL.
YoYManufacturerRows(table) ==
    LET cols == <<"manufacturer", "vehicle_type", "year">>
        keys == SqlGroups(table, cols)
        match(y1, y2) == y1[1] = y2[1] /\ y1[2] = y2[2] /\ y1[3] = y2[3] + 1
        yoy_growth ==
            UNION {{MetricRow("manufacturer", <<y1[1], y1[2]>>, "yoy", <<y1[3]>>,
                              SqlGroupSum(table, cols, y1), p) :
                        p \in LeftJoinPrevious(table, cols,
                                {y2 \in keys : match(y1, y2)})} :
                   y1 \in keys}
    IN  {r \in yoy_growth : r.previous_value # NULL}

\* ROW_NUMBER() OVER (PARTITION BY manufacturer, vehicle_type ORDER BY year,
\* quarter) of a key (manufacturer, vehicle_type, year, quarter).
PeriodNum(keys, k) ==
    1 + Cardinality({k2 \in keys :
            /\ k2[1] = k[1] /\ k2[2] = k[2]
            /\ \/ k2[3] < k[3]
               \/ k2[3] = k[3] /\ QuarterNum(k2[4]) < QuarterNum(k[4])})

\* qoq_manufacturer_query: the quarterly sums per (manufacturer,
\* vehicle_type) joined with the sums of the row numbered one less.
QoQManufacturerRows(table) ==
    LET cols == <<"manufacturer", "vehicle_type", "year", "quarter">>
        keys == SqlGroups(table, cols)
        match(q1, q2) ==
            q1[1] = q2[1] /\ q1[2] = q2[2] /\ PeriodNum(keys, q1) = PeriodNum(keys, q2) + 1
        qoq_growth ==
            UNION {{MetricRow("manufacturer", <<q1[1], q1[2]>>, "qoq", <<q1[3], q1[4]>>,
                              SqlGroupSum(table, cols, q1), p) :
                        p \in LeftJoinPrevious(table, cols,
                                {q2 \in keys : match(q1, q2)})} :
                   q1 \in keys}
    IN  {r \in qoq_growth : r.previous_value # NULL}

\* vehicle_type_yoy_query: the yearly sums per vehicle_type joined with the
\* sums of the year before.
YoYVehicleTypeRows(table) ==
    LET cols == <<"vehicle_type", "year">>
        keys == SqlGroups(table, cols)
        match(v1, v2) == v1[1] = v2[1] /\ v1[2] = v2[2] + 1
        vehicle_yoy_growth ==
            UNION {{MetricRow("vehicle_type", <<v1[1]>>, "yoy", <<v1[2]>>,
                              SqlGroupSum(table, cols, v1), p) :
                        p \in LeftJoinPrevious(table, cols,
                                {v2 \in keys : match(v1, v2)})} :
                   v1 \in keys}
    IN  {r \in vehicle_yoy_growth : r.previous_value # NULL}

\* The rows of growth_metrics after calculate_and_store_growth_metrics:
\* DELETE FROM growth_metrics, then the three INSERT ... SELECT.
GrowthMetricsOf(table) ==
    YoYManufacturerRows(table) \cup QoQManufacturerRows(table) \cup YoYVehicleTypeRows(table)

\* A rebuild that inserts beside the rows already stored.
GrowthMetricsKeepingStored(stored, table) == stored \cup GrowthMetricsOf(table)

\* growth_metrics after calculate_and_store_growth_metrics has committed, from
\* the rows stored before the call and the registration rows.
GrowthMetricsAfterRecompute(stored, table) == GrowthMetricsOf(table)

\* quarterly_totals: the keys (year, quarter, vehicle_type, manufacturer).
QuarterlyTotalsCols == <<"year", "quarter", "vehicle_type", "manufacturer">>

\* vehicle_type_totals: SUM(registrations) of quarterly_totals at the (period,
\* vehicle_type) of key k.
VehicleTypeTotal(table, k) ==
    SumRegistrations(table,
        {i \in DOMAIN table : /\ table[i].year = k[1]
                              /\ table[i].quarter = k[2]
                              /\ table[i].vehicle_type = k[3]})

\* ROW_NUMBER() OVER (PARTITION BY period, vehicle_type ORDER BY registrations
\* DESC) of key k.  SQL leaves the order among equal sums open; SQLite numbers
\* them in the order of the grouped rows, manufacturer ascending.
RankPosition(table, k) ==
    LET keys == SqlGroups(table, QuarterlyTotalsCols)
        reg(x) == SqlGroupSum(table, QuarterlyTotalsCols, x)
    IN  1 + Cardinality({k2 \in keys :
                /\ k2[1] = k[1] /\ k2[2] = k[2] /\ k2[3] = k[3]
                /\ \/ reg(k2) > reg(k)
                   \/ reg(k2) = reg(k) /\ StrOrd(k2[4]) < StrOrd(k[4])})

\* A share cut off after 2 decimals.
MarketSharePercentTruncated(registrations, total_registrations) ==
    IF total_registrations = 0 THEN NULL
    ELSE NotNull((registrations * 10000) \div total_registrations)

\* ROUND(registrations * 100.0 / total_registrations, 2) in hundredths of a
\* percent; a division by 0 is NULL.
MarketSharePercent(registrations, total_registrations) ==
    IF total_registrations = 0 THEN NULL
    ELSE NotNull(SqlRound(registrations * 10000, total_registrations))

\* market_share_calc: one row per key of quarterly_totals.
MarketShareCalc(table) ==
    {[period |-> <<k[1], k[2]>>, vehicle_type |-> k[3], manufacturer |-> k[4],
      registrations |-> SqlGroupSum(table, QuarterlyTotalsCols, k),
      market_share_percent |->
          MarketSharePercent(SqlGroupSum(table, QuarterlyTotalsCols, k),
                             VehicleTypeTotal(table, k)),
      rank_position |-> RankPosition(table, k)] :
        k \in SqlGroups(table, QuarterlyTotalsCols)}

\* market_share_percent REAL NOT NULL: the INSERT fails when a share is NULL.
MarketShareInsertFails(table) ==
    \E r \in MarketShareCalc(table) : r.market_share_percent = NULL

\* A rebuild that inserts beside the rows already stored.
MarketShareKeepingStored(stored, table) ==
    IF MarketShareInsertFails(table) THEN stored ELSE stored \cup MarketShareCalc(table)

\* market_share after calculate_and_store_market_share: DELETE FROM
\* market_share and the INSERT ... SELECT are one transaction, which is never
\* committed when the INSERT fails.
MarketShareAfterRecompute(stored, table) ==
    IF MarketShareInsertFails(table) THEN stored ELSE MarketShareCalc(table)

(***************************************************************************)
(* The caller's DataFrame.  Rows come the way get_data() returns them:     *)
(* ORDER BY date, vehicle_type, manufacturer.                              *)
(***************************************************************************)
NoOp == [name |-> "none"]

\* No write transaction is open.
NoTxn == [table |-> "none"]

\* ORDER BY date, vehicle_type, manufacturer
OrderKey(r) == <<r.date, StrOrd(r.vehicle_type), StrOrd(r.manufacturer)>>

OrderLeq(a, b) ==
    LET x == OrderKey(a)
        y == OrderKey(b)
    IN  \/ x = y
        \/ \E i \in 1..3 : x[i] < y[i] /\ \A j \in 1..(i - 1) : x[j] = y[j]

Init ==
    /\ df = <<>>
    /\ columns = SchemaColumns
    /\ op = NoOp
    /\ out = <<>>
    /\ vehicle_registrations = <<>>
    /\ growth_metrics = {}
    /\ market_share = {}
    /\ txn = NoTxn

\* One more row of input, while no call has been made on the table yet.
AddRow(universe, limit) ==
    /\ op = NoOp
    /\ Len(df) < limit
    /\ \E r \in universe :
        /\ IF df = <<>> THEN TRUE ELSE OrderLeq(df[Len(df)], r)
        /\ df' = Append(df, r)
    /\ UNCHANGED <<columns, op, out, store_vars>>

(***************************************************************************)
(* Specification of growth(): tables over a few periods with gaps.         *)
(***************************************************************************)
\* 2020-Q4 and 2021-Q1 are consecutive quarters and years; 2021-Q1 and
\* 2022-Q1 are consecutive years but not quarters; 2020 and 2022 are neither.
GrowthPeriods == {<<2020, "Q4">>, <<2021, "Q1">>, <<2022, "Q1">>}

GrowthEntities == {<<"A", "2W">>, <<"B", "2W">>}

\* Registration counts of generated rows: multiples of 500.
GrowthRows ==
    {Row(p[1], p[2], e[2], e[1], n * 500) :
        p \in GrowthPeriods, e \in GrowthEntities, n \in 0..MaxCount}

GroupBys == {<<"manufacturer", "vehicle_type">>, <<"vehicle_type">>}

Growth(period_type, group_by) ==
    /\ out' = calculate_growth_metrics(df, period_type, group_by)
    /\ op' = [name |-> "growth", period_type |-> period_type, group_by |-> group_by]
    /\ columns' = IF period_type = "qoq" THEN columns \cup {"period_sort"} ELSE columns
    /\ UNCHANGED <<df, store_vars>>

GrowthYoY == \E g \in GroupBys : Growth("yoy", g)

GrowthQoQ == \E g \in GroupBys : Growth("qoq", g)

AddGrowthRow == AddRow(GrowthRows, MaxRows)

NextGrowth == AddGrowthRow \/ GrowthYoY \/ GrowthQoQ

SpecGrowth == Init /\ [][NextGrowth]_vars

(***************************************************************************)
(* Calls on the Store.  The caller hands its DataFrame to the inserts.     *)
(***************************************************************************)
MaxStoreRows == 2   \* rows of a DataFrame handed to the Store

\* bulk_insert_registrations(df, replace): fails on df_enhanced[required_columns]
\* with a KeyError when a required column other than month is missing; the
\* connection is then dropped without a commit.
bulk_insert_registrations(replace) ==
    LET ok == ~SelectFails(columns)
    IN  /\ vehicle_registrations' =
            IF ok THEN TableAfterBulkInsert(vehicle_registrations,
                                            df_enhanced(df, columns), replace)
            ELSE TableAfterFailedInsert(vehicle_registrations, replace)
        /\ op' = [name |-> "bulk_insert_registrations", replace |-> replace,
                  stored_before |-> Len(vehicle_registrations)]
        /\ out' = IF ok THEN "ok" ELSE "KeyError"
        /\ UNCHANGED <<df, columns, growth_metrics, market_share, txn>>

\* insert_data(df): to_sql fails when the DataFrame lacks a NOT NULL column or
\* has a column the table has not, and rolls the transaction back; of a
\* DataFrame without rows it inserts nothing and does not fail.
insert_data ==
    LET ok == df = <<>> \/ columns = required_columns
    IN  /\ vehicle_registrations' =
            IF ok THEN TableAfterInsertData(vehicle_registrations, df)
            ELSE TableAfterFailedInsert(vehicle_registrations, TRUE)
        /\ op' = [name |-> "insert_data", replace |-> TRUE,
                  stored_before |-> Len(vehicle_registrations)]
        /\ out' = IF ok THEN "ok" ELSE "DatabaseError"
        /\ UNCHANGED <<df, columns, growth_metrics, market_share, txn>>

\* A recomputation of the growth metrics that clears the market shares too.
RecomputeGrowthClearingShares ==
    /\ growth_metrics' = GrowthMetricsAfterRecompute(growth_metrics, vehicle_registrations)
    /\ market_share' = {}
    /\ op' = [name |-> "calculate_and_store_growth_metrics"]
    /\ out' = "ok"
    /\ UNCHANGED <<df, columns, vehicle_registrations, txn>>

calculate_and_store_growth_metrics ==
    /\ growth_metrics' = GrowthMetricsAfterRecompute(growth_metrics, vehicle_registrations)
    /\ op' = [name |-> "calculate_and_store_growth_metrics"]
    /\ out' = "ok"
    /\ UNCHANGED <<df, columns, vehicle_registrations, market_share, txn>>

calculate_and_store_market_share ==
    /\ market_share' = MarketShareAfterRecompute(market_share, vehicle_registrations)
    /\ op' = [name |-> "calculate_and_store_market_share"]
    /\ out' = IF MarketShareInsertFails(vehicle_registrations) THEN "IntegrityError" ELSE "ok"
    /\ UNCHANGED <<df, columns, vehicle_registrations, growth_metrics, txn>>

\* The caller starts a new DataFrame.
NewTable ==
    /\ op # NoOp
    /\ df' = <<>>
    /\ columns' = SchemaColumns
    /\ op' = NoOp
    /\ out' = <<>>
    /\ UNCHANGED store_vars

\* replace = False appends: the model stops appending at MaxStoreRows stored rows.
BulkInsert ==
    \E replace \in BOOLEAN :
        /\ replace \/ Len(vehicle_registrations) + Len(df) <= MaxStoreRows
        /\ bulk_insert_registrations(replace)

(***************************************************************************)
(* Specification of the Store's inserts.                                   *)
(***************************************************************************)
StoreRows ==
    {Row(p[1], p[2], e[2], e[1], n) :
        p \in {<<2020, "Q4">>, <<2021, "Q1">>}, e \in GrowthEntities, n \in {500, 1000}}

AddStoreRow == AddRow(StoreRows, MaxStoreRows)

\* The caller's DataFrame comes without one of the columns.
WithoutColumn ==
    /\ op = NoOp
    /\ columns = SchemaColumns
    /\ \E c \in {"month", "year"} : columns' = columns \ {c}
    /\ UNCHANGED <<df, op, out, store_vars>>

NextStore == AddStoreRow \/ WithoutColumn \/ NewTable \/ BulkInsert \/ insert_data

SpecStore == Init /\ [][NextStore]_vars

(***************************************************************************)
(* Specification of growth() beside the Store's growth metrics: the same   *)
(* table goes to growth() and into the Store.                              *)
(***************************************************************************)
AddSharedRow == AddRow(GrowthRows, MaxStoreRows)

NextGrowthStore ==
    \/ AddSharedRow
    \/ GrowthYoY
    \/ GrowthQoQ
    \/ bulk_insert_registrations(TRUE)
    \/ calculate_and_store_growth_metrics

SpecGrowthStore == Init /\ [][NextGrowthStore]_vars

(***************************************************************************)
(* Specification of the Store's rebuilds of its derived tables: tables are *)
(* inserted whole, and the two recomputations run in any order.            *)
(***************************************************************************)
RecomputeRows ==
    {Row(2020, "Q4", "2W", "A", 500), Row(2021, "Q1", "2W", "A", 1000),
     Row(2021, "Q1", "2W", "B", 500)}

\* The DataFrames of at most `limit` rows of `universe`, in get_data() order.
SortedTables(universe, limit) ==
    {t \in UNION {[1..n -> universe] : n \in 0..limit} :
        \A i \in 1..(Len(t) - 1) : OrderLeq(t[i], t[i + 1])}

\* Tables with a vehicle type without registrations, with equal and with
\* unequal sums in a quarter, and with a year and a quarter left out.
RecomputeScenarios ==
    {<<Row(2021, "Q1", "2W", "A", 0)>>,
     <<Row(2021, "Q1", "2W", "A", 1), Row(2021, "Q1", "2W", "B", 31)>>,
     <<Row(2021, "Q1", "2W", "A", 0), Row(2021, "Q1", "2W", "B", 500),
       Row(2021, "Q1", "2W", "C", 500)>>,
     <<Row(2020, "Q4", "2W", "A", 500), Row(2022, "Q1", "2W", "A", 1000)>>,
     <<Row(2020, "Q4", "2W", "A", 0), Row(2021, "Q1", "2W", "A", 500),
       Row(2022, "Q1", "2W", "A", 1000)>>}

RecomputeTables == SortedTables(RecomputeRows, MaxStoreRows) \cup RecomputeScenarios

\* A new DataFrame, one of `tables`, is collected and handed to
\* bulk_insert_registrations(df).
InsertFrom(tables) ==
    /\ \E rows \in tables :
        /\ df' = rows
        /\ vehicle_registrations' = TableAfterBulkInsert(vehicle_registrations, rows, TRUE)
    /\ columns' = SchemaColumns
    /\ op' = [name |-> "bulk_insert_registrations", replace |-> TRUE,
              stored_before |-> Len(vehicle_registrations)]
    /\ out' = "ok"
    /\ UNCHANGED <<growth_metrics, market_share, txn>>

InsertRecords == InsertFrom(RecomputeTables)

NextRecompute ==
    \/ InsertRecords
    \/ calculate_and_store_growth_metrics
    \/ calculate_and_store_market_share

SpecRecompute == Init /\ [][NextRecompute]_vars

(***************************************************************************)
(* Specification of a recomputation beside a reader on a connection of its *)
(* own.  The recomputation runs statement by statement: sqlite3 opens a    *)
(* transaction before the DELETE, and the statements up to conn.commit()   *)
(* change the connection's own view only.  Inserts come between            *)
(* recomputations (a single writer).                                       *)
(***************************************************************************)
RebuildTables ==
    {<<Row(2020, "Q4", "2W", "A", 500), Row(2021, "Q1", "2W", "A", 1000),
       Row(2021, "Q1", "2W", "B", 500)>>,
     <<Row(2020, "Q4", "3W", "A", 500), Row(2021, "Q1", "3W", "A", 500)>>,
     <<Row(2021, "Q1", "2W", "A", 0)>>}

InsertBetweenRebuilds == txn = NoTxn /\ InsertFrom(RebuildTables)

\* A DELETE that is committed at once.
CommittedAfterDeleteAutocommit(stored) == {}

\* The committed rows of a derived table once conn.execute('DELETE FROM ...')
\* has run: the DELETE is inside the transaction it opened.
CommittedAfterDelete(stored) == stored

\* The derived table a transaction is about.
Committed(table) == IF table = "growth_metrics" THEN growth_metrics ELSE market_share

\* conn.execute('DELETE FROM growth_metrics') / ('DELETE FROM market_share')
BeginRecompute ==
    /\ txn = NoTxn
    /\ \E table \in {"growth_metrics", "market_share"} :
        /\ txn' = [table |-> table, rows |-> {}, pc |-> 1,
                   stored_before |-> Cardinality(Committed(table))]
        /\ growth_metrics' =
              IF table = "growth_metrics" THEN CommittedAfterDelete(growth_metrics)
              ELSE growth_metrics
        /\ market_share' =
              IF table = "market_share" THEN CommittedAfterDelete(market_share)
              ELSE market_share
    /\ UNCHANGED <<df, columns, op, out, vehicle_registrations>>

\* The next conn.execute(INSERT ... SELECT) of calculate_and_store_growth_metrics
InsertGrowthMetrics ==
    /\ txn.table = "growth_metrics"
    /\ txn.pc \in 1..3
    /\ txn' = [txn EXCEPT
                 !.rows = @ \cup (CASE txn.pc = 1 -> YoYManufacturerRows(vehicle_registrations)
                                   [] txn.pc = 2 -> QoQManufacturerRows(vehicle_registrations)
                                   [] txn.pc = 3 -> YoYVehicleTypeRows(vehicle_registrations)),
                 !.pc = @ + 1]
    /\ UNCHANGED <<df, columns, op, out, vehicle_registrations, growth_metrics, market_share>>

\* conn.execute(market_share_query): on an IntegrityError the call is left and
\* the connection dropped, which rolls the transaction back.
InsertMarketShare ==
    /\ txn.table = "market_share"
    /\ txn.pc = 1
    /\ IF MarketShareInsertFails(vehicle_registrations)
       THEN /\ txn' = NoTxn
            /\ op' = [name |-> "calculate_and_store_market_share"]
            /\ out' = "IntegrityError"
       ELSE /\ txn' = [txn EXCEPT !.rows = MarketShareCalc(vehicle_registrations), !.pc = 4]
            /\ UNCHANGED <<op, out>>
    /\ UNCHANGED <<df, columns, vehicle_registrations, growth_metrics, market_share>>

\* conn.commit()
CommitRecompute ==
    /\ txn.table # "none"
    /\ txn.pc = 4
    /\ growth_metrics' = IF txn.table = "growth_metrics" THEN txn.rows ELSE growth_metrics
    /\ market_share' = IF txn.table = "market_share" THEN txn.rows ELSE market_share
    /\ op' = [name |-> IF txn.table = "growth_metrics"
                       THEN "calculate_and_store_growth_metrics"
                       ELSE "calculate_and_store_market_share"]
    /\ out' = "ok"
    /\ txn' = NoTxn
    /\ UNCHANGED <<df, columns, vehicle_registrations>>

\* What the statements of get_database_stats() on a connection of its own
\* count: committed rows.
DatabaseStats ==
    [raised |-> "none",
     total_registrations |-> Len(vehicle_registrations),
     growth_metrics_count |-> Cardinality(growth_metrics),
     market_share_records |-> Cardinality(market_share)]

\* get_database_stats() of a reader; while the writer holds the database
\* lock a read may also end in "database is locked".
get_database_stats ==
    /\ op' = [name |-> "get_database_stats"]
    /\ \/ out' = DatabaseStats
       \/ txn # NoTxn /\ out' = [raised |-> "OperationalError"]
    /\ UNCHANGED <<df, columns, store_vars>>

NextRebuild ==
    \/ InsertBetweenRebuilds
    \/ BeginRecompute
    \/ InsertGrowthMetrics
    \/ InsertMarketShare
    \/ CommitRecompute
    \/ get_database_stats

SpecRebuild == Init /\ [][NextRebuild]_vars

(***************************************************************************)
(* Specification of get_data(): tables are inserted whole and queried with *)
(* every combination of filters.                                           *)
(***************************************************************************)
\* The text of a date in SQLite, as <<date, n>>: the ten characters
\* 'YYYY-MM-DD' of the date followed by n more characters.  Texts compare
\* character by character, a proper prefix before its extensions.
TextLeq(a, b) == a[1] < b[1] \/ (a[1] = b[1] /\ a[2] <= b[2])

\* The date column of the collected DataFrame is datetime64
\* (pd.to_datetime), which to_sql writes as 'YYYY-MM-DD 00:00:00'.
StoredDateText(date) == <<date, 1>>

\* A filter argument is the text 'YYYY-MM-DD'.
FilterDateText(date) == <<date, 0>>

\* The WHERE clause: a condition is added for an argument that is truthy
\* (not None, not an empty list).
Selected(r, start_date, end_date, vehicle_types, manufacturers) ==
    /\ IF start_date = NULL THEN TRUE
       ELSE TextLeq(FilterDateText(start_date[1]), StoredDateText(r.date))
    /\ IF end_date = NULL THEN TRUE
       ELSE TextLeq(StoredDateText(r.date), FilterDateText(end_date[1]))
    /\ vehicle_types = {} \/ r.vehicle_type \in vehicle_types
    /\ manufacturers = {} \/ r.manufacturer \in manufacturers

\* ORDER BY date, vehicle_type, manufacturer; rows with equal keys come in
\* rowid order.
RECURSIVE OrderBy(_, _)
OrderBy(table, idxs) ==
    IF idxs = {} THEN <<>>
    ELSE LET i == CHOOSE i \in idxs : \A j \in idxs :
                    /\ OrderLeq(table[i], table[j])
                    /\ OrderKey(table[i]) = OrderKey(table[j]) => i <= j
         IN  <<table[i]>> \o OrderBy(table, idxs \ {i})

get_data_rows(table, start_date, end_date, vehicle_types, manufacturers) ==
    OrderBy(table, {i \in DOMAIN table :
        Selected(table[i], start_date, end_date, vehicle_types, manufacturers)})

QueryDates == {Row(2020, "Q4", "2W", "A", 0).date, Row(2021, "Q1", "2W", "A", 0).date}

QueryRows ==
    {Row(2020, "Q4", "2W", "A", 500), Row(2020, "Q4", "2W", "B", 500),
     Row(2020, "Q4", "3W", "A", 500), Row(2021, "Q1", "2W", "A", 500),
     Row(2021, "Q1", "2W", "B", 500), Row(2021, "Q1", "3W", "A", 500)}

\* Tables in get_data() order, and one that is not.
QueryTables ==
    SortedTables(QueryRows, MaxStoreRows) \cup
    {<<Row(2021, "Q1", "3W", "A", 500), Row(2020, "Q4", "2W", "B", 500),
       Row(2021, "Q1", "2W", "A", 500)>>}

InsertQueried == InsertFrom(QueryTables)

get_data ==
    \E start_date, end_date \in {NULL} \cup {NotNull(d) : d \in QueryDates},
       vehicle_types \in SUBSET {"2W", "3W"}, manufacturers \in SUBSET {"A", "B"} :
        /\ op' = [name |-> "get_data", start_date |-> start_date,
                  end_date |-> end_date, vehicle_types |-> vehicle_types,
                  manufacturers |-> manufacturers]
        /\ out' = get_data_rows(vehicle_registrations, start_date, end_date,
                                vehicle_types, manufacturers)
        /\ UNCHANGED <<df, columns, store_vars>>

NextQuery ==
    \/ InsertQueried
    \/ get_data

SpecQuery == Init /\ [][NextQuery]_vars

(***************************************************************************)
(* Specification of the Store's recomputations beside its query: tables    *)
(* are inserted whole, then recomputed and queried in any order.           *)
(***************************************************************************)
InsertStored == InsertFrom(RebuildTables)

NextStoreFrames ==
    \/ InsertStored
    \/ calculate_and_store_growth_metrics
    \/ calculate_and_store_market_share
    \/ get_data

SpecStoreFrames == Init /\ [][NextStoreFrames]_vars

(***************************************************************************)
(* Specification of market_concentration() and investment_scorecard():     *)
(* small tables of two vehicle types, two manufacturers and two years (the *)
(* earlier year for manufacturer A only), and                              *)
(* the tables of the cases that need more manufacturers.                   *)
(***************************************************************************)
MarketRows ==
    {Row(2020, "Q1", t, "A", n) : t \in {"2W", "3W"}, n \in 0..MaxCount}
        \cup {Row(2021, "Q1", t, m, n) :
                t \in {"2W", "3W"}, m \in {"A", "B"}, n \in 0..MaxCount}

\* One vehicle type in 2021-Q1 with the given registrations of manufacturers
\* A, B, C, ... in that order.
OneQuarter(t, counts) ==
    LET name == <<"A", "B", "C", "D", "E", "F", "G", "H", "I", "J">>
    IN  [i \in DOMAIN counts |-> Row(2021, "Q1", t, name[i], counts[i])]

\* Rows of one manufacturer with a fuel_type column, one fuel per row.
WithFuels(t, fuels) ==
    [i \in DOMAIN fuels |->
        [date |-> 202101, year |-> 2021, quarter |-> "Q1", month |-> 1,
         vehicle_type |-> t, manufacturer |-> "A", registrations |-> 10,
         fuel_type |-> fuels[i]]]

MarketScenarios ==
    {[rows |-> OneQuarter("4W", <<40, 30, 20, 10>>), columns |-> SchemaColumns],
     [rows |-> OneQuarter("4W", <<10, 10, 10, 10>>), columns |-> SchemaColumns],
     [rows |-> OneQuarter("2W", <<20, 15, 15, 15, 15, 10, 10>>), columns |-> SchemaColumns],
     [rows |-> OneQuarter("2W", <<20, 10>>)
                \o OneQuarter("3W", <<10, 10, 10, 10, 10, 10, 10, 10, 10, 10>>),
      columns |-> SchemaColumns],
     [rows |-> <<Row(2020, "Q1", "3W", "A", 44), Row(2021, "Q1", "3W", "A", 49)>>,
      columns |-> SchemaColumns],
     [rows |-> WithFuels("2W", <<"Petrol", "Electric">>),
      columns |-> SchemaColumns \cup {"fuel_type"}],
     [rows |-> WithFuels("4W", <<"Petrol", "Diesel", "Electric", "CNG", "Hybrid", "LPG">>),
      columns |-> SchemaColumns \cup {"fuel_type"}]}

\* The caller's DataFrame is one of the tables above.
LoadMarketScenario ==
    /\ op = NoOp
    /\ df = <<>>
    /\ \E s \in MarketScenarios :
        /\ df' = s.rows
        /\ columns' = s.columns
    /\ UNCHANGED <<op, out, store_vars>>

AddMarketRow == "fuel_type" \notin columns /\ AddRow(MarketRows, MaxRows)

MarketConcentration ==
    /\ op = NoOp
    /\ \E first \in SortOutcomes(df) : out' = calculate_market_concentration(df, first)
    /\ op' = [name |-> "market_concentration"]
    /\ UNCHANGED <<df, columns, store_vars>>

InvestmentScorecard ==
    /\ op = NoOp
    /\ \E first \in SortOutcomes(df) :
        out' = generate_investment_scorecard(df, columns, first)
    /\ op' = [name |-> "investment_scorecard"]
    /\ UNCHANGED <<df, columns, store_vars>>

NextMarket == AddMarketRow \/ LoadMarketScenario \/ MarketConcentration \/ InvestmentScorecard

SpecMarket == Init /\ [][NextMarket]_vars

(***************************************************************************)
(* Specification of forecast(): tables with a series of quarterly sums of  *)
(* one vehicle type, beside a vehicle type with one or two quarters, and   *)
(* the tables of the cases that need more rows.                            *)
(***************************************************************************)
MaxQuarters == 4    \* quarters of the generated series

\* Quarters of three years, with quarters left out.
ForecastQuarters ==
    {<<2020, "Q3">>, <<2020, "Q4">>, <<2021, "Q1">>, <<2021, "Q2">>,
     <<2021, "Q4">>, <<2022, "Q1">>}

ForecastCounts == {0, 1, 3}

RECURSIVE SortRows(_)
\* The rows of a set in get_data() order.
SortRows(S) ==
    IF S = {} THEN <<>>
    ELSE LET r == CHOOSE r \in S : \A r2 \in S : OrderLeq(r, r2)
         IN  <<r>> \o SortRows(S \ {r})

\* One row of vehicle type t and manufacturer A per quarter of a series.
SeriesRows(t, series) ==
    {Row(k[1], k[2], t, "A", series[k]) : k \in DOMAIN series}

ForecastSeries ==
    UNION {[S -> ForecastCounts] :
            S \in {S \in SUBSET ForecastQuarters : Cardinality(S) <= MaxQuarters}}

\* The other vehicle type: no row, or rows of one or of two quarters.
FewQuarters ==
    {{}, {Row(2020, "Q3", "3W", "A", 1)},
     {Row(2020, "Q3", "3W", "A", 1), Row(2021, "Q1", "3W", "A", 3)}}

\* registrations = 1000 + 50 * index over the 8 quarters of 2020 and 2021.
LinearSeries ==
    [k \in {2020, 2021} \X Quarters |->
        1000 + 50 * ((k[1] - 2020) * 4 + QuarterNum(k[2]) - 1)]

\* Four rows of three quarters; two vehicle types of four quarters; the
\* linear series.
ForecastScenarios ==
    {SortRows({Row(2020, "Q3", "2W", "A", 1), Row(2020, "Q3", "2W", "B", 3),
               Row(2020, "Q4", "2W", "A", 1), Row(2021, "Q1", "2W", "A", 3)}),
     SortRows(SeriesRows("2W", [k \in {2021} \X Quarters |-> QuarterNum(k[2])])
              \cup SeriesRows("3W", [k \in {2021} \X Quarters |-> 3])),
     SortRows(SeriesRows("2W", LinearSeries))}

ForecastTables ==
    {SortRows(SeriesRows("2W", series) \cup few) :
        series \in ForecastSeries, few \in FewQuarters} \cup ForecastScenarios

\* The caller's DataFrame is one of the tables above.
LoadForecastTable ==
    /\ op = NoOp
    /\ df = <<>>
    /\ \E rows \in ForecastTables : df' = rows
    /\ UNCHANGED <<columns, op, out, store_vars>>

ForecastPeriods == {1, 4}

Forecast ==
    /\ op = NoOp
    /\ \E periods \in ForecastPeriods :
        /\ out' = forecast_registrations(df, periods)
        /\ op' = [name |-> "forecast", periods |-> periods]
    /\ UNCHANGED <<df, columns, store_vars>>

NextForecast == LoadForecastTable \/ Forecast

SpecForecast == Init /\ [][NextForecast]_vars

(***************************************************************************)
(* Specification of the aggregates side by side: every aggregate is called *)
(* on the same small tables, the table without rows among them.            *)
(***************************************************************************)
AggregateRows ==
    {Row(2020, "Q4", "2W", "A", 500), Row(2021, "Q1", "2W", "A", 1000),
     Row(2021, "Q1", "3W", "B", 500)}

AddAggregateRow == "fuel_type" \notin columns /\ AddRow(AggregateRows, MaxRows)

\* A row with a fuel_type column.
FuelRow(y, q, t, m, n, fuel) ==
    [c \in SchemaColumns \cup {"fuel_type"} |->
        IF c = "fuel_type" THEN fuel ELSE Row(y, q, t, m, n)[c]]

\* Electric rows of two years beside a petrol row.
ElectricScenario ==
    <<FuelRow(2020, "Q4", "2W", "A", 500, "Electric"),
      FuelRow(2021, "Q1", "2W", "A", 1000, "Electric"),
      FuelRow(2021, "Q1", "2W", "B", 500, "Petrol")>>

LoadElectricScenario ==
    /\ op = NoOp
    /\ df = <<>>
    /\ df' = ElectricScenario
    /\ columns' = SchemaColumns \cup {"fuel_type"}
    /\ UNCHANGED <<op, out, store_vars>>

InvestmentThemes ==
    /\ op = NoOp
    /\ \E first \in SortOutcomes(df) :
        out' = identify_investment_themes(df, columns, first)
    /\ op' = [name |-> "investment_themes"]
    /\ UNCHANGED <<df, columns, store_vars>>

AggregateGrowth == op = NoOp /\ (GrowthYoY \/ GrowthQoQ)

NextAggregates ==
    \/ AddAggregateRow
    \/ LoadElectricScenario
    \/ AggregateGrowth
    \/ MarketConcentration
    \/ InvestmentScorecard
    \/ Forecast
    \/ InvestmentThemes

SpecAggregates == Init /\ [][NextAggregates]_vars

(***************************************************************************)
(* Specification of the insight generator: the executive summary, the      *)
(* investment themes, the market leaders and the competitive analysis on   *)
(* small tables, on the tables of the market specification and on tables   *)
(* of three vehicle types and of a declining vehicle type.                 *)
(***************************************************************************)
\* The same manufacturers in 2020-Q1 and 2021-Q1 with the given counts.
TwoYears(t, before, after) ==
    LET name == <<"A", "B", "C", "D", "E", "F", "G", "H", "I", "J">>
    IN  [i \in DOMAIN before |-> Row(2020, "Q1", t, name[i], before[i])]
        \o [i \in DOMAIN after |-> Row(2021, "Q1", t, name[i], after[i])]

InsightScenarios ==
    {s \in MarketScenarios : Len(s.rows) <= 7}
        \cup {[rows |-> OneQuarter("2W", <<10>>) \o OneQuarter("3W", <<10>>)
                            \o OneQuarter("4W", <<10>>),
               columns |-> SchemaColumns],
              [rows |-> TwoYears("2W", <<20, 20, 20, 20>>, <<10, 10, 10, 10>>),
               columns |-> SchemaColumns],
              [rows |-> TwoYears("2W", <<20, 20>>, <<10, 10>>),
               columns |-> SchemaColumns],
              [rows |-> <<Row(2020, "Q1", "2W", "A", 20), Row(2022, "Q1", "2W", "A", 10)>>,
               columns |-> SchemaColumns],
              [rows |-> <<FuelRow(2020, "Q1", "2W", "A", 10, "Electric"),
                          FuelRow(2020, "Q1", "3W", "A", 10, "Petrol"),
                          FuelRow(2020, "Q1", "4W", "A", 10, "Petrol"),
                          FuelRow(2021, "Q1", "2W", "A", 20, "Electric"),
                          FuelRow(2021, "Q1", "3W", "A", 20, "Petrol"),
                          FuelRow(2021, "Q1", "4W", "A", 20, "Petrol")>>,
               columns |-> SchemaColumns \cup {"fuel_type"}]}

\* Rows of two vehicle types and two manufacturers in 2021-Q1, and of the
\* year before for one of them.
InsightRows ==
    {Row(2020, "Q1", "2W", "A", n) : n \in {1, MaxCount}}
        \cup {Row(2021, "Q1", t, m, n) :
                t \in {"2W", "3W"}, m \in {"A", "B"}, n \in {0, 1, MaxCount}}

AddInsightRow == "fuel_type" \notin columns /\ AddRow(InsightRows, MaxRows)

LoadInsightScenario ==
    /\ op = NoOp
    /\ df = <<>>
    /\ \E s \in InsightScenarios :
        /\ df' = s.rows
        /\ columns' = s.columns
    /\ UNCHANGED <<op, out, store_vars>>

ExecutiveSummary ==
    /\ op = NoOp
    /\ \E dominant_category \in
            (IF df = <<>> THEN {"none"} ELSE DominantCategories(df)) :
        out' = generate_executive_summary(df, columns, dominant_category)
    /\ op' = [name |-> "executive_summary", calls |-> SummaryCalls(df)]
    /\ UNCHANGED <<df, columns, store_vars>>

\* The sort outcomes of a call for one vehicle type; a single one when the
\* table has no rows of it.
PlacesOf(vehicle_data) ==
    IF vehicle_data = <<>> THEN {[leader |-> "none", top3 |-> {}, top10 |-> {}]}
    ELSE LeaderPlaces(vehicle_data)

MarketLeaders ==
    /\ op = NoOp
    /\ \E vehicle_type \in VehicleCategory :
        /\ \E place \in PlacesOf(VehicleData(df, vehicle_type)) :
              out' = identify_market_leaders(df, vehicle_type, place)
        /\ op' = [name |-> "market_leaders", vehicle_type |-> vehicle_type]
    /\ UNCHANGED <<df, columns, store_vars>>

CompetitiveAnalysis ==
    /\ op = NoOp
    /\ \E vehicle_type \in VehicleCategory :
        /\ \E place \in PlacesOf(VehicleData(df, vehicle_type)) :
              out' = generate_competitive_analysis(df, vehicle_type, place)
        /\ op' = [name |-> "competitive_analysis", vehicle_type |-> vehicle_type]
    /\ UNCHANGED <<df, columns, store_vars>>

NextInsights ==
    \/ AddInsightRow
    \/ LoadInsightScenario
    \/ ExecutiveSummary
    \/ InvestmentThemes
    \/ MarketLeaders
    \/ CompetitiveAnalysis

SpecInsights == Init /\ [][NextInsights]_vars

(***************************************************************************)
(* Properties of growth().                                                 *)
(***************************************************************************)
IsGrowthCall == op.name = "growth" /\ op.period_type \in {"yoy", "qoq"}

\* The groups of the table under the call's group_by.
GroupsOf(group_by) == {GroupVals(df[i], group_by) : i \in DOMAIN df}

\* The period keys at which a group has rows, ascending.
PeriodsOf(g, period_type, group_by) ==
    SortInts({PeriodKey(df[i], period_type) :
                i \in {j \in DOMAIN df : GroupVals(df[j], group_by) = g}})

\* The sum of the registrations of the rows of a group in one period.
PeriodTotal(g, k, period_type, group_by) ==
    SumRegistrations(df,
        {i \in DOMAIN df : /\ GroupVals(df[i], group_by) = g
                           /\ PeriodKey(df[i], period_type) = k})

\* r hundredths of a percent is delta / previous * 100 to the nearest hundredth.
NearestHundredth(r, delta, previous) == 2 * Abs(r * previous - delta * 10000) <= previous

\* The rows of the result for one group and period.
RowsFor(g, name) == {i \in DOMAIN out : out[i].entity = g /\ out[i].period = name}

\* C1: every pair of adjacent periods of a group whose previous sum is
\* positive yields exactly one row, with previous_value and current_value the
\* two sums, growth_rate their relative change in percent rounded to 2
\* decimals and growth_absolute their difference; a group with a single
\* period yields no row.
C1_GrowthRowPerAdjacentPair ==
    IsGrowthCall =>
        \A g \in GroupsOf(op.group_by) :
            LET ks == PeriodsOf(g, op.period_type, op.group_by)
            IN  /\ Len(ks) = 1 => \A i \in DOMAIN out : out[i].entity # g
                /\ \A n \in 2..Len(ks) :
                     LET previous == PeriodTotal(g, ks[n - 1], op.period_type, op.group_by)
                         current == PeriodTotal(g, ks[n], op.period_type, op.group_by)
                         hits == RowsFor(g, PeriodName(ks[n], op.period_type))
                     IN  previous > 0 =>
                            /\ Cardinality(hits) = 1
                            /\ \A i \in hits :
                                 /\ out[i].previous_value = previous
                                 /\ out[i].current_value = current
                                 /\ NearestHundredth(out[i].growth_rate,
                                                     current - previous, previous)
                                 /\ out[i].growth_absolute = current - previous

\* A/2W with 1000 in 2020 and 1500 in 2021: one row, 2021, 50.00 %, +500, rank 1.
C1_Witness ==
    /\ IsGrowthCall
    /\ op.period_type = "yoy"
    /\ op.group_by = <<"manufacturer", "vehicle_type">>
    /\ PeriodsOf(<<"A", "2W">>, "yoy", op.group_by) = <<2020, 2021>>
    /\ out = <<[entity |-> <<"A", "2W">>, period |-> <<2021>>, current_value |-> 1500,
                previous_value |-> 1000, growth_rate |-> 5000, growth_absolute |-> 500,
                rank |-> 1]>>

\* The order in which growth() appends its rows: groups ascending, and the
\* periods of a group ascending.
GeneratedBefore(a, b) ==
    \/ GroupLess(a.entity, b.entity)
    \/ /\ a.entity = b.entity
       /\ \E i \in DOMAIN a.period :
            /\ IF i = 1 THEN a.period[i] < b.period[i]
               ELSE QuarterNum(a.period[i]) < QuarterNum(b.period[i])
            /\ \A j \in 1..(i - 1) : a.period[j] = b.period[j]

PrecedingPeriod(name) ==
    IF Len(name) = 1 THEN <<name[1] - 1>>
    ELSE IF name[2] = "Q1" THEN <<name[1] - 1, "Q4">>
         ELSE <<name[1], CHOOSE q \in Quarters : QuarterNum(q) = QuarterNum(name[2]) - 1>>

\* The period label of a row of the table.
PeriodNameOf(r, period_type) == PeriodName(PeriodKey(r, period_type), period_type)

\* C4: a row for period p of a group has as previous_value the sum of the
\* group in the period immediately preceding p (year p-1, or the preceding
\* calendar quarter); periods that are not consecutive are never compared.
C4_ConsecutivePeriodsOnly ==
    IsGrowthCall =>
        \A i \in DOMAIN out :
            LET before ==
                    {j \in DOMAIN df :
                        /\ GroupVals(df[j], op.group_by) = out[i].entity
                        /\ PeriodNameOf(df[j], op.period_type) = PrecedingPeriod(out[i].period)}
            IN  /\ before # {}
                /\ out[i].previous_value = SumRegistrations(df, before)

(***************************************************************************)
(* Properties of a previous sum of 0.                                      *)
(***************************************************************************)
\* The pairs <<g, n>> of a group of the table and a position n >= 2 in its
\* periods such that the sum of the period before is 0.
ZeroPreviousPairs ==
    {gn \in UNION {{<<g, n>> : n \in 2..Len(PeriodsOf(g, op.period_type, op.group_by))} :
                      g \in GroupsOf(op.group_by)} :
        PeriodTotal(gn[1], PeriodsOf(gn[1], op.period_type, op.group_by)[gn[2] - 1],
                    op.period_type, op.group_by) = 0}

\* The rows growth() returned for such a pair.
RowsForPair(gn) ==
    RowsFor(gn[1], PeriodName(PeriodsOf(gn[1], op.period_type, op.group_by)[gn[2]],
                              op.period_type))

\* C3 as claimed: where the previous sum is 0 the result for the key and
\* period is reported, with a rate of 0 or null: by growth() (whose rows hold
\* a number as rate) and in the rows recompute_growth_metrics() stores.
C3_ZeroPreviousReportedAsZeroOrNull ==
    /\ IsGrowthCall =>
         \A gn \in ZeroPreviousPairs :
            /\ RowsForPair(gn) # {}
            /\ \A i \in RowsForPair(gn) : out[i].growth_rate = 0
    /\ \A r \in growth_metrics :
         r.previous_value = NotNull(0) => r.growth_rate \in {NULL, NotNull(0)}

\* C3 amended: where the previous sum is 0, growth() returns no row for the
\* key and period (every returned row has a positive previous_value), and
\* recompute_growth_metrics() stores the row with growth_rate NULL and
\* growth_absolute = current_value; no rate is computed from a zero divisor.
C3_ZeroPreviousOmittedOrStoredNull ==
    /\ IsGrowthCall =>
         /\ \A gn \in ZeroPreviousPairs : RowsForPair(gn) = {}
         /\ \A i \in DOMAIN out : out[i].previous_value > 0
    /\ \A r \in growth_metrics :
         r.previous_value = NotNull(0) =>
            r.growth_rate = NULL /\ r.growth_absolute = r.current_value
    /\ op.name = "calculate_and_store_growth_metrics" =>
         \A i, j \in DOMAIN vehicle_registrations :
            LET a == vehicle_registrations[i]
                b == vehicle_registrations[j]
                cols == <<"vehicle_type", "year">>
            IN  (/\ a.vehicle_type = b.vehicle_type
                 /\ b.year = a.year + 1
                 /\ SqlGroupSum(vehicle_registrations, cols, <<a.vehicle_type, a.year>>) = 0)
                => \E r \in growth_metrics :
                      /\ r.entity_type = "vehicle_type"
                      /\ r.entity_name = <<b.vehicle_type>>
                      /\ r.period = <<b.year>>
                      /\ r.previous_value = NotNull(0)
                      /\ r.growth_rate = NULL

\* The same table, with a previous sum of 0, went through both: growth()
\* returned nothing for the pair and the Store holds a row with a NULL rate.
C3_Witness ==
    /\ IsGrowthCall
    /\ op.period_type = "yoy"
    /\ ZeroPreviousPairs # {}
    /\ \A gn \in ZeroPreviousPairs : RowsForPair(gn) = {}
    /\ vehicle_registrations = df
    /\ \E r \in growth_metrics : r.previous_value = NotNull(0) /\ r.growth_rate = NULL

(***************************************************************************)
(* Properties of market_concentration().                                   *)
(***************************************************************************)
IsConcentrationCall == op.name = "market_concentration"

\* The registrations of manufacturer m in vehicle type t, and of the type.
RegistrationsOf(t, m) ==
    SumRegistrations(df,
        {i \in DOMAIN df : df[i].vehicle_type = t /\ df[i].manufacturer = m})

RegistrationsOfType(t) ==
    SumRegistrations(df, {i \in DOMAIN df : df[i].vehicle_type = t})

ManufacturersOfType(t) ==
    {df[i].manufacturer : i \in {j \in DOMAIN df : df[j].vehicle_type = t}}

\* Manufacturer m holds 100 % of vehicle type t.
HoldsAll(t, m) == RegistrationsOfType(t) > 0 /\ RegistrationsOf(t, m) = RegistrationsOfType(t)

\* C5: the result has an entry for every vehicle type of the records, with
\* 0 <= HHI <= 10000, and HHI = 10000 exactly when exactly one manufacturer
\* holds 100 % of the registrations of the type.
C5_HhiRange ==
    IsConcentrationCall =>
        /\ DOMAIN out = {df[i].vehicle_type : i \in DOMAIN df}
        /\ \A t \in DOMAIN out :
             /\ RatLeq(<<0, 1>>, out[t].hhi_index)
             /\ RatLeq(out[t].hhi_index, <<10000, 1>>)
             /\ RatEq(out[t].hhi_index, <<10000, 1>>)
                  <=> Cardinality({m \in ManufacturersOfType(t) : HoldsAll(t, m)}) = 1

\* A type has HHI = 10000 although it has two manufacturers: one of them has
\* no registrations.
C5_Witness ==
    /\ IsConcentrationCall
    /\ \E t \in DOMAIN out :
         /\ RatEq(out[t].hhi_index, <<10000, 1>>)
         /\ out[t].total_manufacturers = 2

\* C6 as stated: CR4 <= CR8 <= 100 for every vehicle type, and CR4 = 100 when
\* the type has fewer than 4 manufacturers.
C6_Cr4Cr8Bounds ==
    IsConcentrationCall =>
        \A t \in DOMAIN out :
            /\ RatLeq(out[t].cr4_ratio, out[t].cr8_ratio)
            /\ RatLeq(out[t].cr8_ratio, <<100, 1>>)
            /\ Cardinality(ManufacturersOfType(t)) < 4
                 => RatEq(out[t].cr4_ratio, <<100, 1>>)

\* C6 amended: CR4 <= CR8 <= 100 for every vehicle type; CR4 = 100 when the
\* type has fewer than 4 manufacturers and registrations at all; a type
\* without registrations has CR4 = CR8 = 0.
C6_Cr4Cr8BoundsPositiveTotal ==
    IsConcentrationCall =>
        \A t \in DOMAIN out :
            /\ RatLeq(out[t].cr4_ratio, out[t].cr8_ratio)
            /\ RatLeq(out[t].cr8_ratio, <<100, 1>>)
            /\ (Cardinality(ManufacturersOfType(t)) < 4 /\ RegistrationsOfType(t) > 0)
                 => RatEq(out[t].cr4_ratio, <<100, 1>>)
            /\ RegistrationsOfType(t) = 0
                 => /\ RatEq(out[t].cr4_ratio, <<0, 1>>)
                    /\ RatEq(out[t].cr8_ratio, <<0, 1>>)

\* One type has ten manufacturers and CR4 < CR8 < 100, another has two and
\* CR4 = 100.
C6_Witness ==
    /\ IsConcentrationCall
    /\ \E t \in DOMAIN out :
         /\ out[t].total_manufacturers = 10
         /\ RatLess(out[t].cr4_ratio, out[t].cr8_ratio)
         /\ RatLess(out[t].cr8_ratio, <<100, 1>>)
    /\ \E t \in DOMAIN out :
         /\ out[t].total_manufacturers = 2
         /\ RatEq(out[t].cr4_ratio, <<100, 1>>)

\* The manufacturers of vehicle type t hold 40, 30, 20 and 10 percent.
Shares40302010(t) ==
    /\ Cardinality(ManufacturersOfType(t)) = 4
    /\ \A p \in {40, 30, 20, 10} :
         \E m \in ManufacturersOfType(t) :
            100 * RegistrationsOf(t, m) = p * RegistrationsOfType(t)

\* C7 as stated: the label follows the HHI with strict thresholds and is one
\* of "Highly Concentrated", "Moderately Concentrated", "Unconcentrated",
\* "Highly Competitive"; shares 40, 30, 20, 10 give HHI 3000, "Highly
\* Concentrated" and CR4 = 100.
C7_StructureLabels ==
    IsConcentrationCall =>
        \A t \in DOMAIN out :
            /\ out[t].market_structure =
                 IF RatLess(<<2500, 1>>, out[t].hhi_index) THEN "Highly Concentrated"
                 ELSE IF RatLess(<<1500, 1>>, out[t].hhi_index) THEN "Moderately Concentrated"
                 ELSE IF RatLess(<<1000, 1>>, out[t].hhi_index) THEN "Unconcentrated"
                 ELSE "Highly Competitive"
            /\ Shares40302010(t) =>
                 /\ RatEq(out[t].hhi_index, <<3000, 1>>)
                 /\ out[t].market_structure = "Highly Concentrated"
                 /\ RatEq(out[t].cr4_ratio, <<100, 1>>)

\* C7 amended: the same thresholds, with the labels "Highly Concentrated
\* (Oligopoly)", "Moderately Concentrated", "Unconcentrated (Competitive)"
\* and "Highly Competitive"; shares 40, 30, 20, 10 give HHI 3000, "Highly
\* Concentrated (Oligopoly)" and CR4 = 100.
C7_StructureLabelsAsReturned ==
    IsConcentrationCall =>
        \A t \in DOMAIN out :
            /\ out[t].market_structure =
                 IF RatLess(<<2500, 1>>, out[t].hhi_index)
                 THEN "Highly Concentrated (Oligopoly)"
                 ELSE IF RatLess(<<1500, 1>>, out[t].hhi_index) THEN "Moderately Concentrated"
                 ELSE IF RatLess(<<1000, 1>>, out[t].hhi_index)
                 THEN "Unconcentrated (Competitive)"
                 ELSE "Highly Competitive"
            /\ Shares40302010(t) =>
                 /\ RatEq(out[t].hhi_index, <<3000, 1>>)
                 /\ out[t].market_structure = "Highly Concentrated (Oligopoly)"
                 /\ RatEq(out[t].cr4_ratio, <<100, 1>>)

\* The call was made on a type with shares 40, 30, 20, 10.
C7_Witness ==
    /\ IsConcentrationCall
    /\ \E t \in DOMAIN out :
         /\ Shares40302010(t)
         /\ out[t].market_structure = "Highly Concentrated (Oligopoly)"

(***************************************************************************)
(* Properties of investment_scorecard().                                   *)
(***************************************************************************)
IsScorecardCall == op.name = "investment_scorecard"

\* lo <= x <= hi, false of NaN.
Within(x, lo, hi) == RatLeq(<<lo, 1>>, x) /\ RatLeq(x, <<hi, 1>>)

\* |a - b| <= n / d
Near(a, b, n, d) ==
    /\ RatLeq(RatAdd(a, RatScale(b, -1, 1)), <<n, d>>)
    /\ RatLeq(RatAdd(b, RatScale(a, -1, 1)), <<n, d>>)

\* 0.4 * growth + 0.3 * size + 0.2 * competition + 0.1 * innovation of the
\* sub-scores as the entry reports them.
WeightedSum(entry) ==
    RatAdd(RatAdd(RatScale(entry.growth_momentum, 4, 10),
                  <<3 * entry.market_size, 10>>),
           RatAdd(RatScale(entry.competition_intensity, 2, 10),
                  <<entry.innovation_potential, 10>>))

\* The years in which vehicle type t and manufacturer m have rows.
YearsOf(t, m) ==
    {df[i].year :
        i \in {j \in DOMAIN df : df[j].vehicle_type = t /\ df[j].manufacturer = m}}

\* Vehicle type t has no growth rows: no manufacturer has two years of which
\* the earlier has registrations.
NoGrowthRows(t) ==
    \A m \in ManufacturersOfType(t) : \A y1, y2 \in YearsOf(t, m) :
        y1 < y2 =>
            SumRegistrations(df,
                {i \in DOMAIN df : /\ df[i].vehicle_type = t
                                   /\ df[i].manufacturer = m
                                   /\ df[i].year = y1}) = 0

\* C8: every vehicle type of the records has an entry whose overall_score and
\* sub-scores are numbers in [0, 100], the overall score being the weighted
\* sum of the sub-scores (each reported to one decimal); a type without
\* growth rows has growth score 0.
C8_OverallScoreRange ==
    IsScorecardCall =>
        /\ DOMAIN out = {df[i].vehicle_type : i \in DOMAIN df}
        /\ \A t \in DOMAIN out :
             /\ Within(out[t].overall_score, 0, 100)
             /\ Within(out[t].growth_momentum, 0, 100)
             /\ Within(out[t].competition_intensity, 0, 100)
             /\ out[t].market_size \in 0..100
             /\ out[t].innovation_potential \in 0..100
             /\ Near(out[t].overall_score, WeightedSum(out[t]), 8, 100)
             /\ NoGrowthRows(t) => RatEq(out[t].growth_momentum, <<0, 1>>)

\* One type has no growth rows (its average growth is NaN), another has a
\* positive growth score.
C8_Witness ==
    /\ IsScorecardCall
    /\ \E t \in DOMAIN out :
         /\ NoGrowthRows(t)
         /\ IsNaN(out[t].key_metrics.avg_yoy_growth)
         /\ Within(out[t].overall_score, 0, 100)
    /\ \E t \in DOMAIN out : RatLess(<<0, 1>>, out[t].growth_momentum)

\* The name a recommendation begins with.
LabelName(recommendation) ==
    CASE recommendation = "Strong Buy - High growth potential with favorable market dynamics"
           -> "Strong Buy"
      [] recommendation = "Buy - Positive outlook with moderate risk" -> "Buy"
      [] recommendation = "Hold - Mixed signals, monitor closely" -> "Hold"
      [] recommendation = "Avoid - Challenging market conditions" -> "Avoid"

\* C9: the recommendation of every entry is the one the thresholds give for
\* the overall_score the entry reports: >= 75 Strong Buy, >= 60 Buy, >= 40
\* Hold, else Avoid.
C9_LabelFollowsReportedScore ==
    IsScorecardCall =>
        \A t \in DOMAIN out :
            LabelName(out[t].recommendation) =
                IF RatLeq(<<75, 1>>, out[t].overall_score) THEN "Strong Buy"
                ELSE IF RatLeq(<<60, 1>>, out[t].overall_score) THEN "Buy"
                ELSE IF RatLeq(<<40, 1>>, out[t].overall_score) THEN "Hold"
                ELSE "Avoid"

(***************************************************************************)
(* Properties of the Store's inserts.                                      *)
(***************************************************************************)
\* bulk_insert_registrations(df) or insert_data(df) has completed; replace
\* has its default, True.
InsertCompleted ==
    /\ op.name \in {"bulk_insert_registrations", "insert_data"}
    /\ out = "ok"
    /\ op.replace

\* C10: once an insert has completed, the stored registration rows are the
\* rows of the DataFrame, in its order, whatever was stored before.
C10_InsertReplaces ==
    InsertCompleted =>
        /\ Len(vehicle_registrations) = Len(df)
        /\ \A i \in DOMAIN df : \A c \in required_columns :
             vehicle_registrations[i][c] = df[i][c]

\* An insert of rows has completed on a table that held rows before.
C10_Witness ==
    /\ InsertCompleted
    /\ op.stored_before > 0
    /\ df # <<>>
    /\ Len(vehicle_registrations) = Len(df)

(***************************************************************************)
(* Properties of the Store's derived tables.                               *)
(***************************************************************************)
GrowthRecomputed == op.name = "calculate_and_store_growth_metrics" /\ out = "ok"

ShareRecomputed == op.name = "calculate_and_store_market_share" /\ out = "ok"

\* The stored registration rows of an entity (<<manufacturer, vehicle_type>>
\* or <<vehicle_type>>) in a period (<<year>> or <<year, quarter>>).
StoredAt(table, entity, period) ==
    {i \in DOMAIN table :
        /\ IF Len(entity) = 2
           THEN table[i].manufacturer = entity[1] /\ table[i].vehicle_type = entity[2]
           ELSE table[i].vehicle_type = entity[1]
        /\ table[i].year = period[1]
        /\ Len(period) = 2 => table[i].quarter = period[2]}

\* Growth row r is about stored registration rows and carries their sum.
GrowthRowFromStored(r, table) ==
    /\ StoredAt(table, r.entity_name, r.period) # {}
    /\ r.current_value = SumRegistrations(table, StoredAt(table, r.entity_name, r.period))

\* Market share rows rows are one per (period, vehicle type, manufacturer) of
\* the stored registration rows, each with the sum of its rows.
ShareRowsFromStored(rows, table) ==
    /\ {<<r.period[1], r.period[2], r.vehicle_type, r.manufacturer>> : r \in rows}
         = {<<table[i].year, table[i].quarter, table[i].vehicle_type, table[i].manufacturer>> :
                i \in DOMAIN table}
    /\ Cardinality(rows) = Cardinality({<<r.period, r.vehicle_type, r.manufacturer>> : r \in rows})
    /\ \A r \in rows :
         r.registrations =
            SumRegistrations(table, StoredAt(table, <<r.manufacturer, r.vehicle_type>>, r.period))

ReaderSeesEmpty ==
    /\ get_database_stats
    /\ out'.raised = "none"
    /\ IF txn.table = "growth_metrics"
       THEN out'.growth_metrics_count = 0
       ELSE out'.market_share_records = 0

\* C12 as stated: while a recomputation is between its DELETE and its commit,
\* registration rows are stored and the derived table held rows before, a
\* reader can observe the derived table empty.
C12_ReaderMaySeeEmptyTable ==
    (txn # NoTxn /\ vehicle_registrations # <<>> /\ txn.stored_before > 0)
        => ENABLED ReaderSeesEmpty

\* C12 amended: while a recomputation is between its DELETE and its commit,
\* the counts a reader has got are those of the rows the derived table held
\* before the DELETE.
C12_ReaderSeesRowsBeforeDelete ==
    (txn # NoTxn /\ op.name = "get_database_stats" /\ out.raised = "none")
        => IF txn.table = "growth_metrics"
           THEN out.growth_metrics_count = txn.stored_before
           ELSE out.market_share_records = txn.stored_before

\* A reader has counted the rows of a table that a recomputation has deleted
\* and not yet rebuilt, and found the rows of before.
C12_Witness ==
    /\ txn # NoTxn
    /\ txn.pc = 1
    /\ txn.stored_before > 0
    /\ vehicle_registrations # <<>>
    /\ op.name = "get_database_stats"
    /\ out.raised = "none"
    /\ out.growth_metrics_count > 0
    /\ out.market_share_records > 0

(***************************************************************************)
(* get_data(): the rows a query returns.                                   *)
(***************************************************************************)
IsQuery == op.name = "get_data"

Count(rows, r) == Cardinality({i \in DOMAIN rows : rows[i] = r})

\* The filters of the last query, on the dates themselves.
SatisfiesFilters(r) ==
    /\ IF op.start_date = NULL THEN TRUE ELSE r.date >= op.start_date[1]
    /\ IF op.end_date = NULL THEN TRUE ELSE r.date <= op.end_date[1]
    /\ op.vehicle_types = {} \/ r.vehicle_type \in op.vehicle_types
    /\ op.manufacturers = {} \/ r.manufacturer \in op.manufacturers

\* C13: a query returns exactly the stored rows that satisfy every supplied
\* filter (date >= start, date <= end, vehicle type in the list, manufacturer
\* in the list), ordered by (date, vehicle type, manufacturer); an absent
\* filter or an empty list restricts nothing.
C13_QueryReturnsFilteredRows ==
    IsQuery =>
        /\ \A r \in Range(vehicle_registrations) \cup Range(out) :
            Count(out, r) =
                IF SatisfiesFilters(r) THEN Count(vehicle_registrations, r) ELSE 0
        /\ \A i \in 1..(Len(out) - 1) : OrderLeq(out[i], out[i + 1])

(***************************************************************************)
(* Rows of growth_metrics and the period before theirs.                    *)
(***************************************************************************)
\* C14: after a recomputation of growth_metrics every stored row has a
\* previous_value, and the entity of the row has registration rows in the
\* period before the row's period (the year before for yoy, the calendar
\* quarter before for qoq), so that no row is stored for an entity's first
\* period.
C14_RowOnlyWithPriorPeriod ==
    GrowthRecomputed =>
        \A r \in growth_metrics :
            /\ r.previous_value # NULL
            /\ StoredAt(vehicle_registrations, r.entity_name, PrecedingPeriod(r.period)) # {}

(***************************************************************************)
(* Rows of market_share: ranks and shares.                                 *)
(***************************************************************************)
\* The (period, vehicle type) pairs of the stored registration rows.
SharePartitions ==
    {<<<<vehicle_registrations[i].year, vehicle_registrations[i].quarter>>,
       vehicle_registrations[i].vehicle_type>> : i \in DOMAIN vehicle_registrations}

SharesOf(p) == {r \in market_share : r.period = p[1] /\ r.vehicle_type = p[2]}

IsInsert(o) == o.name \in {"bulk_insert_registrations", "insert_data"}

\* C16 as stated: an insert of a DataFrame that lacks one of the columns
\* date, year, quarter, month, vehicle_type, manufacturer, registrations
\* fails.
C16_FailsOnAnyMissingColumn ==
    (IsInsert(op) /\ df # <<>> /\ ~(required_columns \subseteq columns)) => out # "ok"

\* C16: an insert of a DataFrame with rows that lacks one of date, year,
\* quarter, vehicle_type, manufacturer, registrations fails and leaves the
\* stored rows as they were; when month alone is missing,
\* bulk_insert_registrations stores the rows with the month of their date and
\* insert_data fails.
C16_FailsOnMissingColumnButMonth ==
    [][IsInsert(op') =>
        /\ (df # <<>> /\ ~((required_columns \ {"month"}) \subseteq columns)) =>
              /\ out' # "ok"
              /\ vehicle_registrations' = vehicle_registrations
        /\ (df # <<>> /\ "month" \notin columns /\ op'.name = "insert_data") =>
              /\ out' # "ok"
              /\ vehicle_registrations' = vehicle_registrations
        /\ (columns = required_columns \ {"month"}
                /\ op'.name = "bulk_insert_registrations") =>
              LET n == Len(vehicle_registrations') - Len(df)
              IN  /\ out' = "ok"
                  /\ n = IF op'.replace THEN 0 ELSE Len(vehicle_registrations)
                  /\ \A i \in DOMAIN df :
                       /\ \A c \in required_columns \ {"month"} :
                            vehicle_registrations'[n + i][c] = df[i][c]
                       /\ vehicle_registrations'[n + i].month = df[i].date % 100]_vars

\* An insert of rows without their year has failed on a table that holds the
\* rows stored before.
C16_Witness ==
    /\ IsInsert(op)
    /\ df # <<>>
    /\ "year" \notin columns
    /\ out # "ok"
    /\ op.stored_before > 0
    /\ Len(vehicle_registrations) = op.stored_before

\* C25: when an insert fails, every row that was stored before the call is
\* still stored after it: the DELETE before the insert has no effect of its
\* own.
C25_FailedInsertKeepsRows ==
    [][(IsInsert(op') /\ out' # "ok") =>
          \A i \in DOMAIN vehicle_registrations :
              Count(vehicle_registrations', vehicle_registrations[i])
                  >= Count(vehicle_registrations, vehicle_registrations[i])]_vars

\* A replacing insert has failed and the table still holds rows.
C25_Witness ==
    /\ IsInsert(op)
    /\ op.replace
    /\ out \in {"KeyError", "DatabaseError"}
    /\ op.stored_before > 0
    /\ vehicle_registrations # <<>>

(***************************************************************************)
(* Properties of forecast().                                               *)
(***************************************************************************)
IsForecastCall == op.name = "forecast"

\* The (year, quarter) points of vehicle type t in the table.
QuarterPoints(t) ==
    {<<df[i].year, df[i].quarter>> : i \in {i \in DOMAIN df : df[i].vehicle_type = t}}

\* C17: the result of forecast() has an entry for a vehicle type exactly when
\* the table has rows of at least 4 different (year, quarter) pairs for it;
\* a call returns a result whatever the table.
C17_EntryIffFourQuarters ==
    IsForecastCall =>
        DOMAIN out = {t \in VehicleCategory : Cardinality(QuarterPoints(t)) >= 4}

\* A result with an entry for one vehicle type and none for another that has
\* rows in the table.
C17_Witness ==
    /\ IsForecastCall
    /\ "2W" \in DOMAIN out
    /\ "3W" \notin DOMAIN out
    /\ Cardinality(QuarterPoints("3W")) = 2
    /\ Cardinality(QuarterPoints("2W")) = 4

\* The line of the entry of vehicle type t at quarter index p, from the
\* reported slope: the intercept is the one for which the residuals of the
\* quarterly sums add up to 0.
LineAt(t, p) ==
    LET keys == QuarterPoints(t)
        x == [k \in keys |-> QuarterIndex(keys, k)]
        y == [k \in keys |-> QuarterlySum(VehicleData(df, t), k)]
        n == Cardinality(keys)
        slope == out[t].trend_slope
        intercept == RatScale(RatAdd(<<SumOver(y, keys), 1>>,
                                     RatScale(slope, -SumOver(x, keys), 1)), 1, n)
    IN  RatAdd(RatScale(slope, p, 1), intercept)

\* The reported slope is the least-squares one: the residuals of the line,
\* weighted with their quarter indices, add up to 0.
IsFittedSlope(t) ==
    LET keys == QuarterPoints(t)
        x == [k \in keys |-> QuarterIndex(keys, k)]
        y == [k \in keys |-> QuarterlySum(VehicleData(df, t), k)]
    IN  RatSum([k \in keys |->
                    RatScale(RatAdd(<<y[k], 1>>, RatScale(LineAt(t, x[k]), -1, 1)), x[k], 1)],
               keys) = <<0, 1>>

LastQuarterIndex(t) ==
    LET keys == QuarterPoints(t)
    IN  CHOOSE p \in {QuarterIndex(keys, k) : k \in keys} :
            \A k \in keys : QuarterIndex(keys, k) <= p

\* C18: every entry of a forecast has `periods` forecast values, the j-th for
\* the quarter index j after the last one of the table; each is an integer
\* >= 0: 0 where the fitted line is below 1 there, and else the line's value
\* with its fraction cut off.
C18_ForecastValues ==
    IsForecastCall =>
        \A t \in DOMAIN out :
            /\ IsFittedSlope(t)
            /\ DOMAIN out[t].forecast_values = 1..op.periods
            /\ \A j \in 1..op.periods :
                LET v == out[t].forecast_values[j]
                    line == LineAt(t, LastQuarterIndex(t) + j)
                IN  /\ v \in Nat
                    /\ IF RatLess(line, <<1, 1>>) THEN v = 0
                       ELSE RatLeq(<<v, 1>>, line) /\ RatLess(line, <<v + 1, 1>>)

\* A forecast of 4 quarters with a value cut off and a value floored at 0.
C18_Witness ==
    /\ IsForecastCall
    /\ op.periods = 4
    /\ \E t \in DOMAIN out :
        /\ \E j \in 1..4 :
            /\ out[t].forecast_values[j] > 0
            /\ RatLess(<<out[t].forecast_values[j], 1>>, LineAt(t, LastQuarterIndex(t) + j))
        /\ \E j \in 1..4 :
            /\ out[t].forecast_values[j] = 0
            /\ RatLess(LineAt(t, LastQuarterIndex(t) + j), <<0, 1>>)

(***************************************************************************)
(* The aggregates on a table without rows.                                 *)
(***************************************************************************)
IsAggregateCall ==
    op.name \in {"growth", "market_concentration", "investment_scorecard",
                 "forecast", "investment_themes"}

IsSummaryCall == op.name = "executive_summary"

\* C21: the executive summary of a table without rows is the placeholder
\* summary (total registrations "0", growth "N/A", no manufacturers, "No data
\* available" for the dominant category, the market size and the outlook),
\* and no calculator operation is called for it.
C21_EmptySummaryIsPlaceholder ==
    (IsSummaryCall /\ df = <<>>) =>
        /\ out.market_overview.total_registrations = FormatThousands(0)
        /\ out.market_overview.yoy_growth = <<"N/A">>
        /\ out.market_overview.total_manufacturers = 0
        /\ out.market_overview.dominant_category = <<"No data available">>
        /\ out.market_overview.market_size_category = <<"No data available">>
        /\ out.investment_outlook = <<"No data available">>
        /\ op.calls = {}

C21_Witness == IsSummaryCall /\ df = <<>>

\* The registrations of a vehicle type in a year, and whether it has rows then.
CategoryYearRows(t, y) ==
    {i \in DOMAIN df : df[i].vehicle_type = t /\ df[i].year = y}

\* A vehicle type whose registrations fell by more than 5% from one year to
\* the next.
DecliningCategory(t) ==
    \E i \in DOMAIN df :
        LET y == df[i].year
            previous == SumRegistrations(df, CategoryYearRows(t, y - 1))
            current == SumRegistrations(df, CategoryYearRows(t, y))
        IN  /\ df[i].vehicle_type = t
            /\ CategoryYearRows(t, y - 1) # {}
            /\ previous > 0
            /\ GrowthRate(current, previous) < -500

\* A vehicle type whose HHI is above 2500.
HighlyConcentratedCategory(t) ==
    RatLess(<<2500, 1>>, Hhi(MarketShares(VehicleData(df, t))))

HasRisk(risks, text) == \E i \in 1..(Len(risks) - 3) : risks[i][1] = text

\* C22: the risk list of the summary of a table with rows ends with the
\* three generic risks, has a concentration risk exactly when a vehicle type
\* has an HHI above 2500 and a decline risk exactly when a vehicle type has a
\* year-over-year growth rate below -5%, and so has 3 to 5 entries.
C22_RiskList ==
    (IsSummaryCall /\ df # <<>>) =>
        LET risks == out.risk_assessment
            n == Len(risks)
        IN  /\ n \in 3..5
            /\ SubSeq(risks, n - 2, n) = StandardRisks
            /\ HasRisk(risks, "High concentration risk in")
                <=> \E t \in VehicleTypes(df) : HighlyConcentratedCategory(t)
            /\ HasRisk(risks, "Declining demand in")
                <=> \E t \in VehicleTypes(df) : DecliningCategory(t)

IsThemesCall == op.name = "investment_themes"

\* C23: investment_themes() returns at most three themes, whatever the
\* table, also when all of 2W, 3W and 4W have an HHI above 1500.
C23_AtMostThreeThemes ==
    IsThemesCall => Len(out) \in 0..3

\* The vehicle types of the table whose HHI is above 1500.
ConsolidatingCategories ==
    {t \in VehicleTypes(df) : RatLess(<<1500, 1>>, Hhi(MarketShares(VehicleData(df, t))))}

\* The themes of the result whose name ends with the given text.
ThemesNamed(text) == {i \in DOMAIN out : out[i].theme_name[Len(out[i].theme_name)] = text}

\* C23 as amended: at most five themes: at most one electric vehicle theme,
\* one consolidation theme for each vehicle type with an HHI above 1500, and
\* at most one high-growth theme.
C23_AtMostFiveThemes ==
    IsThemesCall =>
        /\ Len(out) \in 0..5
        /\ Cardinality(ThemesNamed("Electric Vehicle Adoption")) <= 1
        /\ Cardinality(ThemesNamed("Market Consolidation")) = Cardinality(ConsolidatingCategories)
        /\ Cardinality(ThemesNamed("High-Growth Segment Opportunity")) <= 1
        /\ Len(out) = Cardinality(ThemesNamed("Electric Vehicle Adoption"))
                        + Cardinality(ThemesNamed("Market Consolidation"))
                        + Cardinality(ThemesNamed("High-Growth Segment Opportunity"))

\* All of 2W, 3W and 4W have an HHI above 1500, and five themes come back.
C23_Witness ==
    /\ IsThemesCall
    /\ ConsolidatingCategories = {"2W", "3W", "4W"}
    /\ Len(out) = 5

(***************************************************************************)
(* Properties of the calculator as a whole.                                *)
(***************************************************************************)
CalculatorOps == {"growth", "market_concentration", "investment_scorecard", "forecast"}

\* Calling growth() or forecast() again on the table as the call left it
\* returns the result the call returned.
SecondCallReturnsTheSame ==
    /\ IsGrowthCall => out = calculate_growth_metrics(df, op.period_type, op.group_by)
    /\ IsForecastCall => out = forecast_registrations(df, op.periods)

\* C24: growth() (YoY and QoQ), market_concentration(), investment_scorecard()
\* and forecast() leave the caller's table as it was, no row or column
\* added, removed or altered, and a second call returns the same result.
C24_CalculatorIsPure ==
    /\ [][(op'.name \in CalculatorOps /\ op' # op) => (df' = df /\ columns' = columns)]_vars
    /\ []SecondCallReturnsTheSame

(***************************************************************************)
(* What the Store's recomputations and its query leave alone.              *)
(***************************************************************************)
\* C26: calculate_and_store_growth_metrics(), calculate_and_store_market_share()
\* and get_data() leave vehicle_registrations as it was; the recomputation
\* of the growth metrics leaves market_share as it was and the
\* recomputation of the market shares leaves growth_metrics as it was.
C26_RecomputeAndQueryFrames ==
    [][/\ op'.name \in {"calculate_and_store_growth_metrics",
                        "calculate_and_store_market_share", "get_data"}
            => vehicle_registrations' = vehicle_registrations
       /\ op'.name = "calculate_and_store_growth_metrics" => market_share' = market_share
       /\ op'.name = "calculate_and_store_market_share" => growth_metrics' = growth_metrics]_vars

\* The growth metrics have been recomputed on stored rows beside stored
\* market shares.
C26_Witness ==
    /\ op.name = "calculate_and_store_growth_metrics"
    /\ vehicle_registrations # <<>>
    /\ growth_metrics # {}
    /\ market_share # {}

(***************************************************************************)
(* growth() beside the stored growth metrics.                              *)
(***************************************************************************)
\* The Store holds the rows of the caller's table.
SameRegistrationRows ==
    vehicle_registrations = [i \in DOMAIN df |-> StoredRow(df[i])]

\* (manufacturer, category, year, current_value, previous_value, growth_rate)
\* of the stored year-over-year rows of manufacturers with previous_value > 0.
StoredYoYTuples ==
    {<<r.entity_name[1], r.entity_name[2], r.period[1], r.current_value,
       r.previous_value[1], r.growth_rate[1]>> :
        r \in {s \in growth_metrics :
                /\ s.entity_type = "manufacturer"
                /\ s.metric_type = "yoy"
                /\ s.previous_value # NULL
                /\ s.previous_value[1] > 0}}

\* The same of the rows of growth(records, YoY, [manufacturer, category]).
CalculatedYoYTuples ==
    LET ms == calculate_growth_metrics(df, "yoy", <<"manufacturer", "vehicle_type">>)
    IN  {<<ms[i].entity[1], ms[i].entity[2], ms[i].period[1], ms[i].current_value,
           ms[i].previous_value, ms[i].growth_rate>> : i \in DOMAIN ms}

\* C27: on the same registration rows the stored year-over-year rows of
\* manufacturers with previous_value > 0 and the rows of growth(records, YoY,
\* [manufacturer, category]) are the same tuples, also when a key has rows
\* for years that are not adjacent.
C27_StoreAndCalculatorAgree ==
    (GrowthRecomputed /\ SameRegistrationRows) => StoredYoYTuples = CalculatedYoYTuples

(***************************************************************************)
(* Calls for a vehicle type without rows.                                  *)
(***************************************************************************)
IsCategoryCall == op.name \in {"market_leaders", "competitive_analysis"}

\* C28: identify_market_leaders() and generate_competitive_analysis() return
\* a result and raise nothing when the table has no row of the vehicle type
\* asked for, the table without rows included.
C28_NoRowsOfCategoryReturns ==
    (IsCategoryCall /\ VehicleData(df, op.vehicle_type) = <<>>) => out.raised = "none"

(***************************************************************************)
(* The leader of an entry of market_concentration().                       *)
(***************************************************************************)
\* The percent share of manufacturer m in vehicle type t (the type has
\* registrations).
PercentShare(t, m) == Rat(100 * RegistrationsOf(t, m), RegistrationsOfType(t))

\* effective_competitors is 10000 / hhi_index when hhi_index > 0, else 0.
EffectiveCompetitorsAsClaimed(e) ==
    IF RatLess(<<0, 1>>, e.hhi_index)
    THEN RatEq(e.effective_competitors, Rat(10000 * e.hhi_index[2], e.hhi_index[1]))
    ELSE RatEq(e.effective_competitors, <<0, 1>>)

\* C29: in every entry the market leader is a manufacturer with the largest
\* registration sum of its vehicle type, leader_share is at least the share
\* of every other manufacturer and at most CR4, total_manufacturers counts
\* the manufacturers of the type, and effective_competitors is 10000 / HHI
\* when HHI > 0 and 0 otherwise.
C29_LeaderEntry ==
    IsConcentrationCall =>
        \A t \in DOMAIN out :
            /\ out[t].market_leader \in ManufacturersOfType(t)
            /\ \A m \in ManufacturersOfType(t) :
                 RegistrationsOf(t, m) <= RegistrationsOf(t, out[t].market_leader)
            /\ \A m \in ManufacturersOfType(t) \ {out[t].market_leader} :
                 RatLeq(MarketShares(VehicleData(df, t))[m], out[t].leader_share)
            /\ RatLeq(out[t].leader_share, out[t].cr4_ratio)
            /\ out[t].total_manufacturers = Cardinality(ManufacturersOfType(t))
            /\ EffectiveCompetitorsAsClaimed(out[t])

\* C29 amended: as C29 for a vehicle type with registrations; for a type
\* whose registrations sum to 0 leader_share is NaN (compared with nothing),
\* the leader is one of its manufacturers and effective_competitors is 0.
C29_LeaderEntryPositiveTotal ==
    IsConcentrationCall =>
        \A t \in DOMAIN out :
            /\ out[t].market_leader \in ManufacturersOfType(t)
            /\ \A m \in ManufacturersOfType(t) :
                 RegistrationsOf(t, m) <= RegistrationsOf(t, out[t].market_leader)
            /\ out[t].total_manufacturers = Cardinality(ManufacturersOfType(t))
            /\ EffectiveCompetitorsAsClaimed(out[t])
            /\ IF RegistrationsOfType(t) > 0
               THEN /\ RatEq(out[t].leader_share, PercentShare(t, out[t].market_leader))
                    /\ \A m \in ManufacturersOfType(t) \ {out[t].market_leader} :
                         RatLeq(PercentShare(t, m), out[t].leader_share)
                    /\ RatLeq(out[t].leader_share, out[t].cr4_ratio)
               ELSE /\ IsNaN(out[t].leader_share)
                    /\ RatEq(out[t].effective_competitors, <<0, 1>>)

\* A type of seven manufacturers whose leader holds less than CR4, beside
\* entries of the calls on a type without registrations.
C29_Witness ==
    /\ IsConcentrationCall
    /\ \E t \in DOMAIN out :
         /\ out[t].total_manufacturers = 7
         /\ RatLess(out[t].leader_share, out[t].cr4_ratio)
         /\ RatLess(<<0, 1>>, out[t].effective_competitors)
         /\ \E m \in ManufacturersOfType(t) :
              RegistrationsOf(t, m) < RegistrationsOf(t, out[t].market_leader)

\* An entry of a vehicle type without registrations.
C29_WitnessNoRegistrations ==
    /\ IsConcentrationCall
    /\ \E t \in DOMAIN out : RegistrationsOfType(t) = 0 /\ IsNaN(out[t].leader_share)

====
